---- MODULE Spec2Model ----
(***************************************************************************)
(* Model of the agentic-runtime plan lifecycle: BasicAgent (plan,          *)
(* simulate, execute, evaluate, replan) and the orchestration in main.     *)
(*                                                                         *)
(* Texts (Rust Strings) are sequences of tokens.  Tokenisation convention: *)
(* whitespace (" ", "\n") is always a token of its own, "$output[" and "]" *)
(* are tokens of their own, and no other token starts with "$output[" or   *)
(* ends with "]".  Under that convention starts_with / ends_with / trim /  *)
(* slicing on the Rust string are the token operations below.              *)
(***************************************************************************)
EXTENDS Integers, Sequences, FiniteSets, TLC

VARIABLES
    tools,             \* context.tools: the registered capability names
    replanner,         \* agent.replanner: whether a replanner is configured
    console,           \* stdin: the lines read_line can deliver
    memory,            \* context.memory.entries: sequence of (label, content)
    model_output,      \* model.output: Option<String>
    current_state,     \* model.current_state
    pc,                \* position of main
    plan,              \* main: plan
    followup_plan,     \* main: followup_plan returned by agent.replan
    sim,               \* main: sim (result of agent.simulate)
    exec,              \* main: exec (result of agent.execute)
    feedback,          \* main: feedback (result of agent.evaluate)
    reflection,        \* main: the reflection text handed to agent.replan
    replanned,         \* replan: plan (what generate_followup_plan returned)
    i,                 \* execute: index of the step the loop is at (0: not in execute)
    simulation,        \* execute: simulation
    combined_output,   \* execute: combined_output
    errors,            \* execute: errors
    critical_failures, \* execute: critical_failures
    previous_outputs,  \* execute: previous_outputs
    trace,             \* execute: the locals of each finished loop iteration of the pass
    exec_calls,        \* number of calls of agent.execute in the run
    replan_calls,      \* number of calls of replanner.generate_followup_plan in the run
    who,               \* acquisition: "planner" or "replanner"
    analysis,          \* acquisition: the outcome of goal_analyzer.analyze_context
    llm_result,        \* acquisition: result (of self.llm.execute(&prompt))
    json_str,          \* acquisition: json_str after the repairs
    validation_errors, \* acquisition: validation_errors
    llm_calls,         \* acquisition: number of backend calls made so far
    plan_steps_json,   \* validate_plan: plan (the steps of the document)
    known_tools,       \* validate_plan: registered_tools
    tool_map,          \* context.tools: the HashMap from key to the tool stored
    registrations      \* the tools handed to register_tool so far, in order

vars == <<tools, memory, model_output, current_state, pc, plan, followup_plan,
          sim, exec, feedback, reflection, i, simulation, combined_output,
          errors, critical_failures, previous_outputs, trace, exec_calls,
          replan_calls, replanner, console, who, analysis, llm_result,
          json_str, validation_errors, llm_calls, replanned,
          plan_steps_json, known_tools, tool_map, registrations>>

agentVars == <<tools, replanner, console, tool_map, registrations>>

validateVars == <<plan_steps_json, known_tools>>

acquireVars == <<who, analysis, llm_result, json_str, validation_errors,
                 llm_calls>>

mainVars == <<pc, plan, followup_plan, sim, feedback, reflection, replan_calls>>

passVars == <<simulation, combined_output, errors, critical_failures,
              previous_outputs, trace>>

----------------------------------------------------------------------------
(* Bounds *)

MaxSteps == 3

MaxPlanLen == 1

MaxFollowupLen == 2

MaxDocLen == 2

MaxWrappedLen == 1

MaxLineLen == 2

MaxConfirmSteps == 1

\* The longest chain of register_tool calls.
MaxRegistrations == 3

----------------------------------------------------------------------------
(* Option<T> *)

None == [some |-> FALSE, v |-> <<>>]

Some(x) == [some |-> TRUE, v |-> x]

UnwrapOr(o, d) == IF o.some THEN o.v ELSE d

UnwrapOrDefault(o) == UnwrapOr(o, <<>>)

----------------------------------------------------------------------------
(* Text helpers *)

Whitespace == {" ", "\n"}

RECURSIVE TrimStart(_)
TrimStart(s) ==
    IF s # <<>> /\ Head(s) \in Whitespace THEN TrimStart(Tail(s)) ELSE s

RECURSIVE TrimEnd(_)
TrimEnd(s) ==
    IF s # <<>> /\ s[Len(s)] \in Whitespace
    THEN TrimEnd(SubSeq(s, 1, Len(s) - 1))
    ELSE s

Trim(s) == TrimEnd(TrimStart(s))

StartsWith(s, p) == Len(s) >= Len(p) /\ SubSeq(s, 1, Len(p)) = p

EndsWith(s, p) == Len(s) >= Len(p) /\ SubSeq(s, Len(s) - Len(p) + 1, Len(s)) = p

----------------------------------------------------------------------------
(* protocol: PlanStep, Plan, results *)

Info(message) ==
    [kind |-> "Info", message |-> message, name |-> "", input |-> <<>>]

ToolCall(name, input) ==
    [kind |-> "ToolCall", message |-> <<>>, name |-> name, input |-> input]

ExecutionResult(success, output, errs) ==
    [success |-> success, output |-> output, errors |-> errs]

SimulationResult(predicted, warnings) ==
    [predicted_outcome |-> predicted, warnings |-> warnings]

Feedback(score, notes) == [score |-> score, notes |-> notes]

----------------------------------------------------------------------------
(* model: TaskModel *)

\* Model::is_complete for TaskModel: self.output.is_some()
is_complete(output) == output.some

----------------------------------------------------------------------------
(* tools: ToolResult and the capabilities of the repository *)

ToolResultSuccess(output) ==
    [success |-> TRUE, output |-> Some(output), error |-> None]

ToolResultFailure(error) ==
    [success |-> FALSE, output |-> None, error |-> Some(error)]

NoResult == [success |-> FALSE, output |-> None, error |-> None]

\* What the shell can print for a command (stdout and stderr, trimmed).
CommandOutputs == { <<"out1">>, <<"out2">> }

FakeEchoExecute(input) == { ToolResultSuccess(<<"Echoed:", " ">> \o input) }

RunCommandExecute(input) ==
    { ToolResultSuccess(o) : o \in CommandOutputs }
        \cup { ToolResultFailure(<<"Command execution failed: ENOENT">>) }

GitStatusExecute(input) ==
    { ToolResultSuccess(<<"On branch main">>),
      ToolResultFailure(<<"Git error: not a git repository">>),
      ToolResultFailure(<<"Failed to run git: ENOENT">>) }

LLMExecute(input) ==
    { ToolResultSuccess(<<"response">>),
      ToolResultFailure(<<"Request failed: connection refused">>) }

ReflectorExecute(input) ==
    { ToolResultSuccess(<<"summary">>),
      ToolResultFailure(<<"LLM failed to generate reflection.">>) }

ErrorAnalyzerExecute(input) ==
    { ToolResultSuccess(<<"{fix_commands}">>),
      ToolResultFailure(<<"LLM did not provide structured fix suggestions">>) }

\* tool.execute(input) for the tool registered under name: the results the
\* call can return.
ToolExecute(name, input) ==
    CASE name = "echo" -> FakeEchoExecute(input)
      [] name = "run_command" -> RunCommandExecute(input)
      [] name = "git_status" -> GitStatusExecute(input)
      [] name = "llm" -> LLMExecute(input)
      [] name = "reflect" -> ReflectorExecute(input)
      [] name = "analyze_error" -> ErrorAnalyzerExecute(input)
      [] OTHER -> {}

\* tool.description() of the tool registered under name.
ToolDescription(name) ==
    CASE name = "echo" -> "Echoes the input back with a prefix"
      [] name = "run_command" ->
            "Runs a shell command and returns its stdout/stderr output."
      [] name = "git_status" -> "Runs 'git status' in the current directory"
      [] name = "llm" ->
            "Sends input to a local LLM via Ollama and returns the response."
      [] name = "reflect" ->
            "Analyzes a memory log and generates a reflection summary using LLM."
      [] name = "analyze_error" ->
            "Analyzes command failures and suggests specific fixes"
      [] OTHER -> ""

\* tool.spec() of the tool registered under name: the default of the trait
\* unless the tool overrides it.
ToolSpec(name) ==
    [name |-> name,
     description |-> ToolDescription(name),
     input_hint |->
        CASE name = "reflect" -> "Pass memory log and goal as plain text."
          [] name = "run_command" -> "Shell command to run (e.g. 'cargo check')"
          [] name = "analyze_error" -> "Error message or command output to analyze"
          [] name = "llm" -> "Freeform prompt text to send to LLM."
          [] OTHER -> "Freeform string input"]

----------------------------------------------------------------------------
(* context *)

\* The registry main builds, and the same with the error analyzer added.
MainRegistry == {"echo", "git_status", "reflect", "llm", "run_command"}

Registries == { MainRegistry, MainRegistry \cup {"analyze_error"} }

get_tool(name) == IF name \in tools THEN Some(name) ELSE None

Entry(label, content) == [label |-> label, content |-> content]

\* log inserting the entry at the front.
logAtFront(mem, label, content) == <<Entry(label, content)>> \o mem

\* Memory::log: entries.push((label, content))
log(mem, label, content) == Append(mem, Entry(label, content))

\* Memory::read_all: entries.clone()
read_all(mem) == mem

----------------------------------------------------------------------------
(* agent: BasicAgent::simulate *)

NotRegisteredLine(name) == <<"Tool '", name, "' not registered">>

ToolUsedLine(spec) ==
    <<"[TOOL] ", spec.name, " - ", spec.description, " (hint: ",
      spec.input_hint, ")">>

RECURSIVE SimWarnings(_)
SimWarnings(steps) ==
    IF steps = <<>> THEN <<>>
    ELSE LET step == Head(steps) IN
         (IF step.kind = "ToolCall" /\ ~get_tool(step.name).some
          THEN <<NotRegisteredLine(step.name)>>
          ELSE <<>>) \o SimWarnings(Tail(steps))

RECURSIVE SimToolsUsed(_)
SimToolsUsed(steps) ==
    IF steps = <<>> THEN <<>>
    ELSE LET step == Head(steps) IN
         (IF step.kind = "ToolCall" /\ get_tool(step.name).some
          THEN <<ToolUsedLine(ToolSpec(get_tool(step.name).v))>>
          ELSE <<>>) \o SimToolsUsed(Tail(steps))

\* simulate with the not-registered warnings overwritten by tools_used.
SimulateOverwrite(p) ==
    LET tools_used == SimToolsUsed(p)
    IN  SimulationResult(
            [steps |-> Len(p), tool_calls |-> Len(tools_used)], tools_used)

Simulate(p) ==
    LET warnings == SimWarnings(p)
        tools_used == SimToolsUsed(p)
    IN  SimulationResult(
            [steps |-> Len(p), tool_calls |-> Len(tools_used)],
            warnings \o tools_used)

----------------------------------------------------------------------------
(* agent: BasicAgent::execute *)

\* The plan execute was called with: main passes plan to the first call and
\* followup_plan to the second.
ExecPlan == IF pc = "execute2" THEN followup_plan.v ELSE plan

CurStep == ExecPlan[i]

InLoop == pc \in {"execute", "execute2"} /\ i >= 1 /\ i <= Len(ExecPlan)

MissingOutput(key) == <<"(missing output for '">> \o key \o <<"')">>

\* resolved_input without the starts_with test.
ResolveInputSuffixOnly(input, prev) ==
    IF EndsWith(input, <<"]">>)
    THEN LET key == SubSeq(input, 2, Len(input) - 1) IN
         IF key \in DOMAIN prev THEN prev[key] ELSE MissingOutput(key)
    ELSE input

ResolveInput(input, prev) ==
    IF StartsWith(input, <<"$output[">>) /\ EndsWith(input, <<"]">>)
    THEN LET key == SubSeq(input, 2, Len(input) - 1) IN
         IF key \in DOMAIN prev THEN prev[key] ELSE MissingOutput(key)
    ELSE input

\* HashMap::insert replaced by entry().or_insert: the first value is kept.
InsertIfAbsent(map, key, value) ==
    [k \in DOMAIN map \cup {key} |-> IF k \in DOMAIN map THEN map[k] ELSE value]

Insert(map, key, value) ==
    [k \in DOMAIN map \cup {key} |-> IF k = key THEN value ELSE map[k]]

\* is_critical without the arm for reflect.
IsCriticalReflect(name) ==
    CASE name = "run_command" -> TRUE
      [] name = "analyze_error" -> FALSE
      [] OTHER -> TRUE

IsCritical(name) ==
    CASE name = "run_command" -> TRUE
      [] name = "reflect" -> FALSE
      [] name = "analyze_error" -> FALSE
      [] OTHER -> TRUE

\* What read_line can deliver at the confirmation prompt.
RawLines == { <<"n", "\n">>, <<"N", "\n">>, <<"y", "\n">> }

\* The comparison with the lower-case answer alone.
IsSkipLower(line) == line = <<"n">>

IsSkip(line) == line = <<"n">> \/ line = <<"N">>

\* The locals of one finished iteration of the loop over plan.steps.
Iteration(step, resolved_input, raw_line, line, found, result, analysed, analysis_input, analysis_result) ==
    [step |-> step, resolved_input |-> resolved_input, raw_line |-> raw_line,
     line |-> line, found |-> found, result |-> result, analysed |-> analysed,
     analysis_input |-> analysis_input, analysis_result |-> analysis_result]

\* execute with critical_failures kept from the earlier pass.
ExecBeginKeepCounter ==
    /\ pc \in {"execute", "execute2"}
    /\ i = 0
    /\ simulation' = Some(Simulate(ExecPlan))
    /\ combined_output' = <<>>
    /\ errors' = <<>>
    /\ critical_failures' = critical_failures
    /\ previous_outputs' = [k \in {} |-> <<>>]
    /\ trace' = <<>>
    /\ i' = 1
    /\ exec_calls' = exec_calls + 1
    /\ UNCHANGED <<agentVars, validateVars, replanned, acquireVars, memory, model_output, current_state, exec, mainVars>>

\* execute with previous_outputs kept from the earlier pass.
ExecBeginKeepOutputs ==
    /\ pc \in {"execute", "execute2"}
    /\ i = 0
    /\ simulation' = Some(Simulate(ExecPlan))
    /\ combined_output' = <<>>
    /\ errors' = <<>>
    /\ critical_failures' = 0
    /\ previous_outputs' = previous_outputs
    /\ trace' = <<>>
    /\ i' = 1
    /\ exec_calls' = exec_calls + 1
    /\ UNCHANGED <<agentVars, validateVars, replanned, acquireVars, memory, model_output, current_state, exec, mainVars>>

ExecBegin ==
    /\ pc \in {"execute", "execute2"}
    /\ i = 0
    /\ simulation' = Some(Simulate(ExecPlan))
    /\ combined_output' = <<>>
    /\ errors' = <<>>
    /\ critical_failures' = 0
    /\ previous_outputs' = [k \in {} |-> <<>>]
    /\ trace' = <<>>
    /\ i' = 1
    /\ exec_calls' = exec_calls + 1
    /\ UNCHANGED <<agentVars, validateVars, replanned, acquireVars, memory, model_output, current_state, exec, mainVars>>

\* The Info arm pushing the line without its line feed.
ExecInfoNoLineFeed ==
    /\ InLoop
    /\ CurStep.kind = "Info"
    /\ combined_output' = combined_output \o <<"[INFO]", " ">> \o CurStep.message
    /\ memory' = log(memory, <<"info">>, CurStep.message)
    /\ trace' = Append(trace,
            Iteration(CurStep, <<>>, <<>>, <<>>, FALSE, NoResult, FALSE, None,
                      NoResult))
    /\ i' = i + 1
    /\ UNCHANGED <<agentVars, validateVars, replanned, acquireVars, model_output, current_state, exec, mainVars,
                   simulation, errors, critical_failures, previous_outputs,
                   exec_calls>>

\* The Info arm counting the step as a critical failure.
ExecInfoCounted ==
    /\ InLoop
    /\ CurStep.kind = "Info"
    /\ combined_output' =
            combined_output \o <<"[INFO]", " ">> \o CurStep.message \o <<"\n">>
    /\ memory' = log(memory, <<"info">>, CurStep.message)
    /\ critical_failures' = critical_failures + 1
    /\ trace' = Append(trace,
            Iteration(CurStep, <<>>, <<>>, <<>>, FALSE, NoResult, FALSE, None,
                      NoResult))
    /\ i' = i + 1
    /\ UNCHANGED <<agentVars, validateVars, replanned, acquireVars, model_output, current_state, exec, mainVars,
                   simulation, errors, previous_outputs, exec_calls>>

ExecInfo ==
    /\ InLoop
    /\ CurStep.kind = "Info"
    /\ combined_output' =
            combined_output \o <<"[INFO]", " ">> \o CurStep.message \o <<"\n">>
    /\ memory' = log(memory, <<"info">>, CurStep.message)
    /\ trace' = Append(trace,
            Iteration(CurStep, <<>>, <<>>, <<>>, FALSE, NoResult, FALSE, None,
                      NoResult))
    /\ i' = i + 1
    /\ UNCHANGED <<agentVars, validateVars, replanned, acquireVars, model_output, current_state, exec, mainVars,
                   simulation, errors, critical_failures, previous_outputs,
                   exec_calls>>

\* The skip writing its console line to the audit log as well.
ExecSkipLogged ==
    /\ InLoop
    /\ CurStep.kind = "ToolCall"
    /\ \E raw \in console :
        LET resolved_input == ResolveInput(CurStep.input, previous_outputs)
            line == Trim(raw)
        IN  /\ IsSkip(line)
            /\ trace' = Append(trace,
                    Iteration(CurStep, resolved_input, raw, line, FALSE,
                              NoResult, FALSE, None, NoResult))
    /\ i' = i + 1
    /\ memory' = log(memory, <<"info">>, <<"Skipped ", CurStep.name>>)
    /\ UNCHANGED <<agentVars, validateVars, replanned, acquireVars, model_output, current_state, exec, mainVars,
                   simulation, combined_output, errors, critical_failures,
                   previous_outputs, exec_calls>>

ExecSkip ==
    /\ InLoop
    /\ CurStep.kind = "ToolCall"
    /\ \E raw \in console :
        LET resolved_input == ResolveInput(CurStep.input, previous_outputs)
            line == Trim(raw)
        IN  /\ IsSkip(line)
            /\ trace' = Append(trace,
                    Iteration(CurStep, resolved_input, raw, line, FALSE,
                              NoResult, FALSE, None, NoResult))
    /\ i' = i + 1
    /\ UNCHANGED <<agentVars, validateVars, replanned, acquireVars, memory, model_output, current_state, exec, mainVars,
                   simulation, combined_output, errors, critical_failures,
                   previous_outputs, exec_calls>>

\* The None arm without the increment of critical_failures.
ExecNotFoundNoCount ==
    /\ InLoop
    /\ CurStep.kind = "ToolCall"
    /\ \E raw \in console :
        LET resolved_input == ResolveInput(CurStep.input, previous_outputs)
            line == Trim(raw)
        IN  /\ ~IsSkip(line)
            /\ ~get_tool(CurStep.name).some
            /\ critical_failures' = critical_failures
            /\ errors' = Append(errors, <<"Tool not found: ", CurStep.name>>)
            /\ trace' = Append(trace,
                    Iteration(CurStep, resolved_input, raw, line, FALSE,
                              NoResult, FALSE, None, NoResult))
    /\ i' = i + 1
    /\ UNCHANGED <<agentVars, validateVars, replanned, acquireVars, memory, model_output, current_state, exec, mainVars,
                   simulation, combined_output, previous_outputs, exec_calls>>

\* The None arm counting the failure without recording an error.
ExecNotFoundNoError ==
    /\ InLoop
    /\ CurStep.kind = "ToolCall"
    /\ \E raw \in console :
        LET resolved_input == ResolveInput(CurStep.input, previous_outputs)
            line == Trim(raw)
        IN  /\ ~IsSkip(line)
            /\ ~get_tool(CurStep.name).some
            /\ critical_failures' = critical_failures + 1
            /\ errors' = errors
            /\ trace' = Append(trace,
                    Iteration(CurStep, resolved_input, raw, line, FALSE,
                              NoResult, FALSE, None, NoResult))
    /\ i' = i + 1
    /\ UNCHANGED <<agentVars, validateVars, replanned, acquireVars, memory, model_output, current_state, exec, mainVars,
                   simulation, combined_output, previous_outputs, exec_calls>>

ExecNotFound ==
    /\ InLoop
    /\ CurStep.kind = "ToolCall"
    /\ \E raw \in console :
        LET resolved_input == ResolveInput(CurStep.input, previous_outputs)
            line == Trim(raw)
        IN  /\ ~IsSkip(line)
            /\ ~get_tool(CurStep.name).some
            /\ critical_failures' = critical_failures + 1
            /\ errors' = Append(errors, <<"Tool not found: ", CurStep.name>>)
            /\ trace' = Append(trace,
                    Iteration(CurStep, resolved_input, raw, line, FALSE,
                              NoResult, FALSE, None, NoResult))
    /\ i' = i + 1
    /\ UNCHANGED <<agentVars, validateVars, replanned, acquireVars, memory, model_output, current_state, exec, mainVars,
                   simulation, combined_output, previous_outputs, exec_calls>>

ToolLogEntry(name, resolved_input, result) ==
    Entry(<<"tool:", " ", name>>,
          <<"[input]", " ">> \o resolved_input \o <<"\n", "[output]", " ">>
              \o UnwrapOrDefault(result.output))

\* The success arm putting its entry at the front of the log.
ExecSuccessLogAtFront ==
    /\ InLoop
    /\ CurStep.kind = "ToolCall"
    /\ \E raw \in console :
        LET name == CurStep.name
            resolved_input == ResolveInput(CurStep.input, previous_outputs)
            line == Trim(raw)
        IN  /\ ~IsSkip(line)
            /\ get_tool(name).some
            /\ \E result \in ToolExecute(get_tool(name).v, resolved_input) :
                /\ result.success
                /\ memory' = <<ToolLogEntry(name, resolved_input, result)>> \o memory
                /\ IF result.output.some
                   THEN /\ previous_outputs' =
                                Insert(previous_outputs, <<name>>, result.output.v)
                        /\ combined_output' =
                                combined_output \o result.output.v \o <<"\n">>
                   ELSE UNCHANGED <<previous_outputs, combined_output>>
                /\ trace' = Append(trace,
                        Iteration(CurStep, resolved_input, raw, line, TRUE,
                                  result, FALSE, None, NoResult))
    /\ i' = i + 1
    /\ UNCHANGED <<agentVars, validateVars, replanned, acquireVars, model_output, current_state, exec, mainVars,
                   simulation, errors, critical_failures, exec_calls>>

ExecSuccess ==
    /\ InLoop
    /\ CurStep.kind = "ToolCall"
    /\ \E raw \in console :
        LET name == CurStep.name
            resolved_input == ResolveInput(CurStep.input, previous_outputs)
            line == Trim(raw)
        IN  /\ ~IsSkip(line)
            /\ get_tool(name).some
            /\ \E result \in ToolExecute(get_tool(name).v, resolved_input) :
                /\ result.success
                /\ memory' = Append(memory, ToolLogEntry(name, resolved_input, result))
                /\ IF result.output.some
                   THEN /\ previous_outputs' =
                                Insert(previous_outputs, <<name>>, result.output.v)
                        /\ combined_output' =
                                combined_output \o result.output.v \o <<"\n">>
                   ELSE UNCHANGED <<previous_outputs, combined_output>>
                /\ trace' = Append(trace,
                        Iteration(CurStep, resolved_input, raw, line, TRUE,
                                  result, FALSE, None, NoResult))
    /\ i' = i + 1
    /\ UNCHANGED <<agentVars, validateVars, replanned, acquireVars, model_output, current_state, exec, mainVars,
                   simulation, errors, critical_failures, exec_calls>>

\* The failure arm without the call of the analyzer.
AnalysesSkipped(is_critical, error_msg) == {NoResult}

\* The automatic error analysis of a critical failure: the results the
\* analyzer call can return, or NoResult when the analyzer is not called.
Analyses(is_critical, error_msg) ==
    IF is_critical /\ get_tool("analyze_error").some
    THEN ToolExecute(get_tool("analyze_error").v, error_msg)
    ELSE {NoResult}

\* The failure arm reporting only critical failures in errors.
ExecFailureCriticalOnly ==
    /\ InLoop
    /\ CurStep.kind = "ToolCall"
    /\ \E raw \in console :
        LET name == CurStep.name
            resolved_input == ResolveInput(CurStep.input, previous_outputs)
            line == Trim(raw)
        IN  /\ ~IsSkip(line)
            /\ get_tool(name).some
            /\ \E result \in ToolExecute(get_tool(name).v, resolved_input) :
                LET error_msg == UnwrapOr(result.error, <<"Unknown error">>)
                    is_critical == IsCritical(name)
                    analysed == is_critical /\ get_tool("analyze_error").some
                    logged == Append(
                        Append(memory, ToolLogEntry(name, resolved_input, result)),
                        Entry(<<"execution_error">>,
                              <<"Tool '", name, "' failed: ">> \o error_msg))
                IN  /\ ~result.success
                    /\ errors' = IF is_critical THEN Append(errors, error_msg)
                                  ELSE errors
                    /\ critical_failures' =
                            IF is_critical THEN critical_failures + 1
                            ELSE critical_failures
                    /\ \E analysis_result \in Analyses(is_critical, error_msg) :
                        /\ memory' =
                              IF analysed /\ analysis_result.success
                                 /\ analysis_result.output.some
                              THEN Append(logged,
                                     Entry(<<"error_analysis">>,
                                           analysis_result.output.v))
                              ELSE logged
                        /\ trace' = Append(trace,
                                Iteration(CurStep, resolved_input, raw, line, TRUE,
                                          result, analysed,
                                          IF analysed THEN Some(error_msg)
                                          ELSE None,
                                          analysis_result))
    /\ i' = i + 1
    /\ UNCHANGED <<agentVars, validateVars, replanned, acquireVars, model_output, current_state, exec, mainVars,
                   simulation, combined_output, previous_outputs, exec_calls>>

\* The failure arm logging the error of critical failures only.
ExecFailureLogCriticalOnly ==
    /\ InLoop
    /\ CurStep.kind = "ToolCall"
    /\ \E raw \in console :
        LET name == CurStep.name
            resolved_input == ResolveInput(CurStep.input, previous_outputs)
            line == Trim(raw)
        IN  /\ ~IsSkip(line)
            /\ get_tool(name).some
            /\ \E result \in ToolExecute(get_tool(name).v, resolved_input) :
                LET error_msg == UnwrapOr(result.error, <<"Unknown error">>)
                    is_critical == IsCritical(name)
                    analysed == is_critical /\ get_tool("analyze_error").some
                    logged == IF is_critical
                              THEN Append(
                                Append(memory, ToolLogEntry(name, resolved_input, result)),
                                Entry(<<"execution_error">>,
                                      <<"Tool '", name, "' failed: ">> \o error_msg))
                              ELSE Append(memory, ToolLogEntry(name, resolved_input, result))
                IN  /\ ~result.success
                    /\ errors' = Append(errors, error_msg)
                    /\ critical_failures' =
                            IF is_critical THEN critical_failures + 1
                            ELSE critical_failures
                    /\ \E analysis_result \in Analyses(is_critical, error_msg) :
                        /\ memory' =
                              IF analysed /\ analysis_result.success
                                 /\ analysis_result.output.some
                              THEN Append(logged,
                                     Entry(<<"error_analysis">>,
                                           analysis_result.output.v))
                              ELSE logged
                        /\ trace' = Append(trace,
                                Iteration(CurStep, resolved_input, raw, line, TRUE,
                                          result, analysed,
                                          IF analysed THEN Some(error_msg)
                                          ELSE None,
                                          analysis_result))
    /\ i' = i + 1
    /\ UNCHANGED <<agentVars, validateVars, replanned, acquireVars, model_output, current_state, exec, mainVars,
                   simulation, combined_output, previous_outputs, exec_calls>>

\* The failure arm asking at the console before it calls the analyzer.
ExecFailureAnalysisConfirmed ==
    /\ InLoop
    /\ CurStep.kind = "ToolCall"
    /\ \E raw \in console, answer \in console :
        LET name == CurStep.name
            resolved_input == ResolveInput(CurStep.input, previous_outputs)
            line == Trim(raw)
        IN  /\ ~IsSkip(line)
            /\ get_tool(name).some
            /\ \E result \in ToolExecute(get_tool(name).v, resolved_input) :
                LET error_msg == UnwrapOr(result.error, <<"Unknown error">>)
                    is_critical == IsCritical(name)
                    analysed == /\ is_critical /\ get_tool("analyze_error").some
                                /\ ~IsSkip(Trim(answer))
                    logged == Append(
                        Append(memory, ToolLogEntry(name, resolved_input, result)),
                        Entry(<<"execution_error">>,
                              <<"Tool '", name, "' failed: ">> \o error_msg))
                IN  /\ ~result.success
                    /\ errors' = Append(errors, error_msg)
                    /\ critical_failures' =
                            IF is_critical THEN critical_failures + 1
                            ELSE critical_failures
                    /\ \E analysis_result \in Analyses(analysed, error_msg) :
                        /\ memory' =
                              IF analysed /\ analysis_result.success
                                 /\ analysis_result.output.some
                              THEN Append(logged,
                                     Entry(<<"error_analysis">>,
                                           analysis_result.output.v))
                              ELSE logged
                        /\ trace' = Append(trace,
                                Iteration(CurStep, resolved_input, raw, line, TRUE,
                                          result, analysed,
                                          IF analysed THEN Some(error_msg)
                                          ELSE None,
                                          analysis_result))
    /\ i' = i + 1
    /\ UNCHANGED <<agentVars, validateVars, replanned, acquireVars, model_output, current_state, exec, mainVars,
                   simulation, combined_output, previous_outputs, exec_calls>>

ExecFailure ==
    /\ InLoop
    /\ CurStep.kind = "ToolCall"
    /\ \E raw \in console :
        LET name == CurStep.name
            resolved_input == ResolveInput(CurStep.input, previous_outputs)
            line == Trim(raw)
        IN  /\ ~IsSkip(line)
            /\ get_tool(name).some
            /\ \E result \in ToolExecute(get_tool(name).v, resolved_input) :
                LET error_msg == UnwrapOr(result.error, <<"Unknown error">>)
                    is_critical == IsCritical(name)
                    analysed == is_critical /\ get_tool("analyze_error").some
                    logged == Append(
                        Append(memory, ToolLogEntry(name, resolved_input, result)),
                        Entry(<<"execution_error">>,
                              <<"Tool '", name, "' failed: ">> \o error_msg))
                IN  /\ ~result.success
                    /\ errors' = Append(errors, error_msg)
                    /\ critical_failures' =
                            IF is_critical THEN critical_failures + 1
                            ELSE critical_failures
                    /\ \E analysis_result \in Analyses(is_critical, error_msg) :
                        /\ memory' =
                              IF analysed /\ analysis_result.success
                                 /\ analysis_result.output.some
                              THEN Append(logged,
                                     Entry(<<"error_analysis">>,
                                           analysis_result.output.v))
                              ELSE logged
                        /\ trace' = Append(trace,
                                Iteration(CurStep, resolved_input, raw, line, TRUE,
                                          result, analysed,
                                          IF analysed THEN Some(error_msg)
                                          ELSE None,
                                          analysis_result))
    /\ i' = i + 1
    /\ UNCHANGED <<agentVars, validateVars, replanned, acquireVars, model_output, current_state, exec, mainVars,
                   simulation, combined_output, previous_outputs, exec_calls>>

\* execute returning into a loop of main that allows a second replanning cycle.
ExecEndSecondCycle ==
    /\ pc \in {"execute", "execute2"}
    /\ i = Len(ExecPlan) + 1
    /\ model_output' = Some(Trim(combined_output))
    /\ current_state' = "Completed"
    /\ exec' = Some(ExecutionResult(critical_failures = 0,
                                    Some(UnwrapOrDefault(model_output')),
                                    errors))
    /\ i' = 0
    /\ pc' = IF pc = "execute" \/ replan_calls < 2 THEN "evaluate" ELSE "done"
    /\ UNCHANGED <<agentVars, validateVars, replanned, acquireVars, memory, plan, followup_plan, sim, feedback,
                   reflection, replan_calls, passVars, exec_calls>>

\* execute storing the output in the task model only when the pass succeeded.
ExecEndSetOnSuccess ==
    /\ pc \in {"execute", "execute2"}
    /\ i = Len(ExecPlan) + 1
    /\ model_output' = IF critical_failures = 0 THEN Some(Trim(combined_output)) ELSE model_output
    /\ current_state' = IF critical_failures = 0 THEN "Completed" ELSE current_state
    /\ exec' = Some(ExecutionResult(critical_failures = 0,
                                    Some(UnwrapOrDefault(model_output')),
                                    errors))
    /\ i' = 0
    /\ pc' = IF pc = "execute" THEN "evaluate" ELSE "done"
    /\ UNCHANGED <<agentVars, validateVars, replanned, acquireVars, memory, plan, followup_plan, sim, feedback,
                   reflection, replan_calls, passVars, exec_calls>>

ExecEnd ==
    /\ pc \in {"execute", "execute2"}
    /\ i = Len(ExecPlan) + 1
    /\ model_output' = Some(Trim(combined_output))
    /\ current_state' = "Completed"
    /\ exec' = Some(ExecutionResult(critical_failures = 0,
                                    Some(UnwrapOrDefault(model_output')),
                                    errors))
    /\ i' = 0
    /\ pc' = IF pc = "execute" THEN "evaluate" ELSE "done"
    /\ UNCHANGED <<agentVars, validateVars, replanned, acquireVars, memory, plan, followup_plan, sim, feedback,
                   reflection, replan_calls, passVars, exec_calls>>

----------------------------------------------------------------------------
(* agent: BasicAgent::evaluate *)

\* evaluate rating a result by its errors.
EvaluateByErrors(result) ==
    Feedback(IF result.errors = <<>> THEN 90 ELSE 30, "Dynamic tool execution complete.")

Evaluate(result) ==
    Feedback(IF result.success THEN 90 ELSE 30, "Dynamic tool execution complete.")

----------------------------------------------------------------------------
(* The plans the text backend can make the planner and the replanner return *)

OutputRef(key) == <<"$output[", key, "]">>

Seqs(S, n) == UNION { [1..k -> S] : k \in 0..n }

MainSteps ==
    { Info(<<"start">>),
      ToolCall("run_command", <<"x">>),
      ToolCall("echo", OutputRef("run_command")),
      ToolCall("build_docs", <<"x">>) }

PlannerPlans == Seqs(MainSteps, MaxPlanLen)

ReplannerPlans == Seqs(MainSteps, MaxFollowupLen)

ExecSteps ==
    { Info(<<"start">>),
      ToolCall("run_command", <<"x">>),
      ToolCall("echo", OutputRef("run_command")),
      ToolCall("echo", <<"see", " ">> \o OutputRef("run_command")),
      ToolCall("build_docs", <<"x">>),
      ToolCall("reflect", OutputRef("run_command")),
      ToolCall("analyze_error", <<"x">>) }

ExecPlans == Seqs(ExecSteps, MaxSteps)

\* The lines read_line can deliver when anything short is typed: up to
\* MaxLineLen characters and the line feed.
ConfirmChars == {"n", "N", "y", " "}

ConfirmLines == { l \o <<"\n">> : l \in Seqs(ConfirmChars, MaxLineLen) }

ConfirmSteps ==
    { Info(<<"start">>),
      ToolCall("run_command", <<"x">>),
      ToolCall("build_docs", <<"x">>) }

ConfirmPlans == Seqs(ConfirmSteps, MaxConfirmSteps)

----------------------------------------------------------------------------
(* main *)

RECURSIVE MemoryAsText(_)
MemoryAsText(mem) ==
    IF mem = <<>> THEN <<>>
    ELSE LET e == Head(mem)
             line == <<"[">> \o e.label \o <<"]", " ">> \o e.content
         IN  IF Tail(mem) = <<>> THEN line
             ELSE line \o <<"\n">> \o MemoryAsText(Tail(mem))

\* Iterator::find over read_all(): the first entry with the label, if any.
RECURSIVE Find(_, _)
Find(mem, label) ==
    IF mem = <<>> THEN None
    ELSE IF Head(mem).label = label THEN Some(Head(mem).content)
    ELSE Find(Tail(mem), label)

\* agent.plan() with the planner main configures.  The planner is a trait
\* object: of what generate_plan appends to the log only its opening entry
\* is kept here, the entries that quote the backend text are left to the
\* model of the acquisition pipeline.
MainPlan ==
    /\ pc = "plan"
    /\ \E p \in PlannerPlans :
        /\ memory' = log(log(memory, <<"planning">>, <<"Using dynamic LLM planner">>),
                         <<"planner">>, <<"Using dynamic LLM planner">>)
        /\ plan' = p
    /\ pc' = "simulate"
    /\ UNCHANGED <<agentVars, validateVars, replanned, acquireVars, model_output, current_state, followup_plan, sim, exec,
                   feedback, reflection, i, passVars, exec_calls, replan_calls>>

\* main's simulate leaving its prediction in the log.
MainSimulateLogged ==
    /\ pc = "simulate"
    /\ sim' = Some(Simulate(plan))
    /\ memory' = log(memory, <<"simulate">>, <<"Plan contains steps">>)
    /\ pc' = "execute"
    /\ UNCHANGED <<agentVars, validateVars, replanned, acquireVars, model_output, current_state, plan, followup_plan, exec, feedback, reflection, i, passVars, exec_calls, replan_calls>>

MainSimulate ==
    /\ pc = "simulate"
    /\ sim' = Some(Simulate(plan))
    /\ pc' = "execute"
    /\ UNCHANGED <<agentVars, validateVars, replanned, acquireVars, memory, model_output, current_state, plan,
                   followup_plan, exec, feedback, reflection, i, passVars,
                   exec_calls, replan_calls>>

MainEvaluate ==
    /\ pc = "evaluate"
    /\ feedback' = Some(Evaluate(exec.v))
    /\ pc' = "reflect"
    /\ UNCHANGED <<agentVars, validateVars, replanned, acquireVars, memory, model_output, current_state, plan,
                   followup_plan, sim, exec, reflection, i, passVars,
                   exec_calls, replan_calls>>

MainReflect ==
    /\ pc = "reflect"
    /\ IF get_tool("reflect").some
       THEN \E r \in ToolExecute(get_tool("reflect").v, MemoryAsText(read_all(memory))) :
                memory' = IF r.output.some
                          THEN log(memory, <<"reflect">>, r.output.v)
                          ELSE memory
       ELSE UNCHANGED memory
    /\ pc' = "followup"
    /\ UNCHANGED <<agentVars, validateVars, replanned, acquireVars, model_output, current_state, plan, followup_plan,
                   sim, exec, feedback, reflection, i, passVars, exec_calls,
                   replan_calls>>

MainNoReflection ==
    /\ pc = "followup"
    /\ ~Find(read_all(memory), <<"reflect">>).some
    /\ pc' = "done"
    /\ UNCHANGED <<agentVars, validateVars, replanned, acquireVars, memory, model_output, current_state, plan,
                   followup_plan, sim, exec, feedback, reflection, i, passVars,
                   exec_calls, replan_calls>>

\* agent.replan() keeping an empty plan: Some(plan) whatever its steps.
MainReplanKeepEmpty ==
    /\ pc = "followup"
    /\ Find(read_all(memory), <<"reflect">>).some
    /\ reflection' = Find(read_all(memory), <<"reflect">>)
    /\ IF replanner
       THEN /\ memory' = log(log(memory, <<"replanner">>,
                                 <<"Using reflection-based replanning">>),
                             <<"replanner">>, <<"Using dynamic LLM replanner">>)
            /\ replan_calls' = replan_calls + 1
            /\ \E p \in ReplannerPlans :
                /\ replanned' = Some(p)
                /\ followup_plan' = Some(p)
                /\ pc' = "simulate2"
       ELSE /\ followup_plan' = None
            /\ pc' = "done"
            /\ UNCHANGED <<memory, replan_calls, replanned>>
    /\ UNCHANGED <<agentVars, validateVars, acquireVars, model_output, current_state, plan,
                   sim, exec, feedback, i, passVars, exec_calls>>

\* The first reflect entry is found and handed to agent.replan(), which
\* without a replanner returns None, and with one logs, delegates to
\* generate_followup_plan and maps an empty plan to None.  As for the
\* planner, only the opening log entry of generate_followup_plan is kept.
MainReplan ==
    /\ pc = "followup"
    /\ Find(read_all(memory), <<"reflect">>).some
    /\ reflection' = Find(read_all(memory), <<"reflect">>)
    /\ IF replanner
       THEN /\ memory' = log(log(memory, <<"replanner">>,
                                 <<"Using reflection-based replanning">>),
                             <<"replanner">>, <<"Using dynamic LLM replanner">>)
            /\ replan_calls' = replan_calls + 1
            /\ \E p \in ReplannerPlans :
                /\ replanned' = Some(p)
                /\ followup_plan' = IF p # <<>> THEN Some(p) ELSE None
                /\ pc' = IF p # <<>> THEN "simulate2" ELSE "done"
       ELSE /\ followup_plan' = None
            /\ pc' = "done"
            /\ UNCHANGED <<memory, replan_calls, replanned>>
    /\ UNCHANGED <<agentVars, validateVars, acquireVars, model_output, current_state, plan,
                   sim, exec, feedback, i, passVars, exec_calls>>

MainSimulate2 ==
    /\ pc = "simulate2"
    /\ sim' = Some(Simulate(followup_plan.v))
    /\ pc' = "execute2"
    /\ UNCHANGED <<agentVars, validateVars, replanned, acquireVars, memory, model_output, current_state, plan,
                   followup_plan, exec, feedback, reflection, i, passVars,
                   exec_calls, replan_calls>>

----------------------------------------------------------------------------
(* protocol: the text of a backend response                                *)
(*                                                                         *)
(* A response is a sequence of tokens as well.  Further convention: the    *)
(* JSON punctuation { } [ ] : , and the double quote are tokens of their   *)
(* own, and so are "//", "</think>", and the line openers: the three       *)
(* backquotes of a fenced block (written Fence), "---" and "### "; a word  *)
(* never contains any of them.                                             *)

Quote == "\""

Fence == "fence"

Least(S) == CHOOSE q \in S : \A r \in S : q <= r

Greatest(S) == CHOOSE q \in S : \A r \in S : q >= r

\* The first index at or after k that holds the token, 0 for None.
PositionFrom(s, tok, k) ==
    LET at == { j \in k..Len(s) : s[j] = tok }
    IN  IF at = {} THEN 0 ELSE Least(at)

\* str::find / str::rfind of a token: its first / last index, 0 for None.
Position(s, tok) == PositionFrom(s, tok, 1)

RPosition(s, tok) ==
    LET at == { j \in DOMAIN s : s[j] = tok }
    IN  IF at = {} THEN 0 ELSE Greatest(at)

\* The text before the first tag taken instead of the text after the last.
PostThinkFirst(raw) ==
    IF Position(raw, "</think>") # 0
    THEN SubSeq(raw, 1, Position(raw, "</think>") - 1)
    ELSE raw

\* raw.split("</think>").last() when the tag is there, raw otherwise.
PostThink(raw) ==
    IF Position(raw, "</think>") # 0
    THEN SubSeq(raw, RPosition(raw, "</think>") + 1, Len(raw))
    ELSE raw

RECURSIVE Lines(_)
\* str::lines
Lines(s) ==
    IF s = <<>> THEN <<>>
    ELSE LET k == Position(s, "\n")
         IN  IF k = 0 THEN <<s>>
             ELSE <<SubSeq(s, 1, k - 1)>> \o Lines(SubSeq(s, k + 1, Len(s)))

RECURSIVE Join(_, _)
Join(lines, sep) ==
    IF lines = <<>> THEN <<>>
    ELSE IF Len(lines) = 1 THEN lines[1]
    ELSE lines[1] \o sep \o Join(Tail(lines), sep)

LineOpeners == {Fence, "---", "### "}

\* The filter of the cleaning step.
KeepLine(line) ==
    /\ ~(TrimStart(line) # <<>> /\ TrimStart(line)[1] \in LineOpeners)
    /\ Trim(line) # <<>>

Cleaned(post_think) == Join(SelectSeq(Lines(post_think), KeepLine), <<"\n">>)

\* The index of the first token at or after k that is not whitespace.
RECURSIVE SkipWs(_, _)
SkipWs(s, k) ==
    IF k <= Len(s) /\ s[k] \in Whitespace THEN SkipWs(s, k + 1) ELSE k

At(s, k) == IF k \in DOMAIN s THEN s[k] ELSE ""

\* \{\s*"plan"\s*:\s*\[ matched at p: the index of the "[", 0 for no match.
PlanHead(s, p) ==
    LET a == SkipWs(s, p + 1)
        b == SkipWs(s, a + 3)
        c == SkipWs(s, b + 1)
    IN  IF /\ At(s, p) = "{"
           /\ At(s, a) = Quote /\ At(s, a + 1) = "plan" /\ At(s, a + 2) = Quote
           /\ At(s, b) = ":"
           /\ At(s, c) = "["
        THEN c ELSE 0

RECURSIVE PlanTail(_, _)
\* .*?\]\s*\} from index k on: the index of the closing "}" of the shortest
\* match, 0 for no match.
PlanTail(s, k) ==
    LET e == PositionFrom(s, "]", k)
    IN  IF e = 0 THEN 0
        ELSE IF At(s, SkipWs(s, e + 1)) = "}" THEN SkipWs(s, e + 1)
        ELSE PlanTail(s, e + 1)

RECURSIVE ExtractFrom(_, _)
\* The leftmost match of the whole pattern that starts at or after p.
ExtractFrom(s, p) ==
    LET open == PositionFrom(s, "{", p)
        c == PlanHead(s, open)
        close == PlanTail(s, c + 1)
    IN  IF open = 0 THEN <<>>
        ELSE IF c # 0 /\ close # 0 THEN SubSeq(s, open, close)
        ELSE ExtractFrom(s, open + 1)

\* Regex (?s)\{\s*"plan"\s*:\s*\[.*?\]\s*\} : find(..).unwrap_or_default()
ExtractJson(cleaned) == ExtractFrom(cleaned, 1)

\* from occurs in s at index k.
OccursAt(s, from, k) ==
    /\ k + Len(from) - 1 <= Len(s)
    /\ s[k] = from[1]
    /\ \A j \in 1..Len(from) : s[k + j - 1] = from[j]

\* The index of the first occurrence of from, 0 for none.
Occurrence(s, from) ==
    LET at == { k \in DOMAIN s : OccursAt(s, from, k) }
    IN  IF at = {} THEN 0 ELSE Least(at)

RECURSIVE Replace(_, _, _)
\* str::replace: every occurrence, left to right, without overlap
Replace(s, from, to) ==
    LET m == Occurrence(s, from)
    IN  IF m = 0 THEN s
        ELSE SubSeq(s, 1, m - 1) \o to
                \o Replace(SubSeq(s, m + Len(from), Len(s)), from, to)

TypeIs(name) == <<Quote, "type", Quote, ":", " ", Quote, name, Quote>>

TypeToolNamed(name) ==
    TypeIs("tool") \o <<",", " ", Quote, "name", Quote, ":", " ", Quote, name, Quote>>

\* The three rewrites of a capability name used as a step type.
FixToolTypes(s) ==
    Replace(Replace(Replace(s, TypeIs("run_command"), TypeToolNamed("run_command")),
                    TypeIs("reflect"), TypeToolNamed("reflect")),
            TypeIs("analyze_error"), TypeToolNamed("analyze_error"))

\* The start of the whitespace run that ends just before q.
RECURSIVE WsRunStart(_, _)
WsRunStart(s, q) ==
    IF q > 1 /\ s[q - 1] \in Whitespace THEN WsRunStart(s, q - 1) ELSE q

RECURSIVE RemoveComments(_)
\* comment_regex ,?\s*//[^\n\r]* replaced by "" everywhere
RemoveComments(s) ==
    LET q == Position(s, "//")
        w == WsRunStart(s, q)
        start == IF w > 1 /\ s[w - 1] = "," THEN w - 1 ELSE w
        stop == IF PositionFrom(s, "\n", q) = 0 THEN Len(s) + 1
                ELSE PositionFrom(s, "\n", q)
    IN  IF q = 0 THEN s
        ELSE SubSeq(s, 1, start - 1) \o RemoveComments(SubSeq(s, stop, Len(s)))

invalid_types == <<"condition", "check", "validate", "if", "when">>

RECURSIVE FixInvalidTypes(_, _)
\* for invalid_type in invalid_types: replace "type": "<it>" by "type": "info"
FixInvalidTypes(s, types) ==
    IF types = <<>> THEN s
    ELSE FixInvalidTypes(Replace(s, TypeIs(Head(types)), TypeIs("info")), Tail(types))

\* json_str as it is logged and parsed: extraction followed by the repairs.
JsonStr(raw) ==
    FixInvalidTypes(
        RemoveComments(FixToolTypes(ExtractJson(Cleaned(PostThink(raw))))),
        invalid_types)

----------------------------------------------------------------------------
(* serde_json: parsing a text into a Value                                 *)
(*                                                                         *)
(* A Value is a record [t, s, items]: t is its type, s the tokens of a     *)
(* string or number, items the elements of an array or the members         *)
(* [k, v] of an object in document order (duplicates kept).  The texts     *)
(* modelled have no escape sequences inside strings, so the content of a   *)
(* string literal is the tokens between its quotes.                        *)

JNull == [t |-> "null", s |-> <<>>, items |-> <<>>]

JBool(tok) == [t |-> "bool", s |-> <<tok>>, items |-> <<>>]

JNum(tok) == [t |-> "num", s |-> <<tok>>, items |-> <<>>]

JStr(s) == [t |-> "str", s |-> s, items |-> <<>>]

JArr(items) == [t |-> "arr", s |-> <<>>, items |-> items]

JObj(members) == [t |-> "obj", s |-> <<>>, items |-> members]

Member(k, v) == [k |-> k, v |-> v]

NumberTokens == {"0", "5", "42"}

\* The result of parsing from an index: the value and the index after it.
Parsed(v, next) == [ok |-> TRUE, v |-> v, next |-> next]

ParseError == [ok |-> FALSE, v |-> JNull, next |-> 0]

\* A string literal that opens at the quote at k.
ParseStringAt(s, k) ==
    LET close == PositionFrom(s, Quote, k + 1)
        content == SubSeq(s, k + 1, close - 1)
    IN  IF At(s, k) # Quote \/ close = 0 THEN ParseError
        ELSE IF Position(content, "\n") # 0 THEN ParseError
        ELSE Parsed(JStr(content), close + 1)

RECURSIVE ParseValueAt(_, _)
RECURSIVE ParseMembers(_, _, _)
RECURSIVE ParseElements(_, _, _)

\* The members of an object from the key at or after k; acc: those read so far.
ParseMembers(s, k, acc) ==
    LET key == ParseStringAt(s, SkipWs(s, k))
        colon == SkipWs(s, key.next)
        val == ParseValueAt(s, colon + 1)
        after == SkipWs(s, val.next)
    IN  IF ~key.ok \/ At(s, colon) # ":" THEN ParseError
        ELSE IF ~val.ok THEN ParseError
        ELSE IF At(s, after) = ","
        THEN ParseMembers(s, after + 1, Append(acc, Member(key.v.s, val.v)))
        ELSE IF At(s, after) = "}"
        THEN Parsed(JObj(Append(acc, Member(key.v.s, val.v))), after + 1)
        ELSE ParseError

\* The elements of an array from the value at or after k.
ParseElements(s, k, acc) ==
    LET val == ParseValueAt(s, k)
        after == SkipWs(s, val.next)
    IN  IF ~val.ok THEN ParseError
        ELSE IF At(s, after) = ","
        THEN ParseElements(s, after + 1, Append(acc, val.v))
        ELSE IF At(s, after) = "]"
        THEN Parsed(JArr(Append(acc, val.v)), after + 1)
        ELSE ParseError

ParseValueAt(s, k) ==
    LET at == SkipWs(s, k)
        tok == At(s, at)
    IN  CASE tok = Quote -> ParseStringAt(s, at)
          [] tok = "{" ->
                IF At(s, SkipWs(s, at + 1)) = "}"
                THEN Parsed(JObj(<<>>), SkipWs(s, at + 1) + 1)
                ELSE ParseMembers(s, at + 1, <<>>)
          [] tok = "[" ->
                IF At(s, SkipWs(s, at + 1)) = "]"
                THEN Parsed(JArr(<<>>), SkipWs(s, at + 1) + 1)
                ELSE ParseElements(s, at + 1, <<>>)
          [] tok \in NumberTokens -> Parsed(JNum(tok), at + 1)
          [] tok \in {"true", "false"} -> Parsed(JBool(tok), at + 1)
          [] tok = "null" -> Parsed(JNull, at + 1)
          [] OTHER -> ParseError

\* serde_json::from_str::<Value>: one value and nothing but whitespace after.
from_str(s) ==
    LET r == ParseValueAt(s, 1)
    IN  IF r.ok /\ SkipWs(s, r.next) > Len(s) THEN r ELSE ParseError

\* The members of an object that carry the key, in document order.
Members(v, key) ==
    IF v.t = "obj" THEN SelectSeq(v.items, LAMBDA m : m.k = <<key>>) ELSE <<>>

\* Value::get with a string index: the member inserted last under the key.
Get(v, key) ==
    IF Members(v, key) = <<>> THEN None
    ELSE Some(Members(v, key)[Len(Members(v, key))].v)

----------------------------------------------------------------------------
(* validation: validate_plan and the hints of its errors *)

MissingField(field) == [kind |-> "MissingField", a |-> <<field>>, b |-> <<>>]

UnknownType(type) == [kind |-> "UnknownType", a |-> type, b |-> <<>>]

InvalidTool(name) == [kind |-> "InvalidTool", a |-> <<name>>, b |-> <<>>]

ToolInputMismatch(tool, reason) ==
    [kind |-> "ToolInputMismatch", a |-> tool, b |-> reason]

\* A capability name is one token.
Word(s) == IF s = <<>> THEN "" ELSE s[1]

\* str::contains of the characters '<' and '>'.
HasPlaceholder(input) ==
    /\ \E k \in DOMAIN input : input[k] \in {"<", "</think>"}
    /\ \E k \in DOMAIN input : input[k] \in {">", "</think>"}

\* step.get(key).and_then(|v| v.as_str())
GetStr(step, key) ==
    IF Get(step, key).some /\ Get(step, key).v.t = "str"
    THEN Some(Get(step, key).v.s) ELSE None

\* ValidateStep taking a type that is not a string for an unknown type.
ValidateStepAnyType(step, registered) ==
    IF ~Get(step, "type").some THEN <<MissingField("type")>>
    ELSE IF ~GetStr(step, "type").some
    THEN <<UnknownType(Get(step, "type").v.s)>>
    ELSE IF GetStr(step, "type").v = <<"tool">>
    THEN IF ~GetStr(step, "name").some THEN <<MissingField("name")>>
         ELSE LET name == Word(GetStr(step, "name").v)
              IN  (IF name \notin registered
                   THEN <<InvalidTool(name)>> ELSE <<>>)
                  \o (IF name # "git_status" /\ ~Get(step, "input").some
                      THEN <<MissingField("input")>> ELSE <<>>)
                  \o (IF GetStr(step, "input").some
                         /\ HasPlaceholder(GetStr(step, "input").v)
                      THEN <<ToolInputMismatch(<<name>>,
                                <<"Input contains placeholder like <file>">>)>>
                      ELSE <<>>)
    ELSE IF GetStr(step, "type").v = <<"info">>
    THEN IF ~Get(step, "message").some THEN <<MissingField("message")>> ELSE <<>>
    ELSE <<UnknownType(GetStr(step, "type").v)>>

\* ValidateStep looking at the input of registered tools only.
ValidateStepKnownOnly(step, registered) ==
    IF ~Get(step, "type").some THEN <<MissingField("type")>>
    ELSE IF ~GetStr(step, "type").some
    THEN <<ToolInputMismatch(<<"<", "unknown", ">">>,
                             <<"Field 'type' must be a string">>)>>
    ELSE IF GetStr(step, "type").v = <<"tool">>
    THEN IF ~GetStr(step, "name").some THEN <<MissingField("name")>>
         ELSE LET name == Word(GetStr(step, "name").v)
              IN  IF name \notin registered THEN <<InvalidTool(name)>>
                  ELSE (IF name # "git_status" /\ ~Get(step, "input").some
                        THEN <<MissingField("input")>> ELSE <<>>)
                    \o (IF GetStr(step, "input").some
                           /\ HasPlaceholder(GetStr(step, "input").v)
                        THEN <<ToolInputMismatch(<<name>>,
                                <<"Input contains placeholder like <file>">>)>>
                        ELSE <<>>)
    ELSE IF GetStr(step, "type").v = <<"info">>
    THEN IF ~Get(step, "message").some THEN <<MissingField("message")>> ELSE <<>>
    ELSE <<UnknownType(GetStr(step, "type").v)>>

\* ValidateStep asking every tool for an input, git_status included.
ValidateStepNoExemption(step, registered) ==
    IF ~Get(step, "type").some THEN <<MissingField("type")>>
    ELSE IF ~GetStr(step, "type").some
    THEN <<ToolInputMismatch(<<"<", "unknown", ">">>,
                             <<"Field 'type' must be a string">>)>>
    ELSE IF GetStr(step, "type").v = <<"tool">>
    THEN IF ~GetStr(step, "name").some THEN <<MissingField("name")>>
         ELSE LET name == Word(GetStr(step, "name").v)
              IN  (IF name \notin registered
                   THEN <<InvalidTool(name)>> ELSE <<>>)
                  \o (IF ~Get(step, "input").some
                      THEN <<MissingField("input")>> ELSE <<>>)
                  \o (IF GetStr(step, "input").some
                         /\ HasPlaceholder(GetStr(step, "input").v)
                      THEN <<ToolInputMismatch(<<name>>,
                                <<"Input contains placeholder like <file>">>)>>
                      ELSE <<>>)
    ELSE IF GetStr(step, "type").v = <<"info">>
    THEN IF ~Get(step, "message").some THEN <<MissingField("message")>> ELSE <<>>
    ELSE <<UnknownType(GetStr(step, "type").v)>>

\* The errors one iteration of the loop over the steps pushes.
ValidateStep(step, registered) ==
    IF ~Get(step, "type").some THEN <<MissingField("type")>>
    ELSE IF ~GetStr(step, "type").some
    THEN <<ToolInputMismatch(<<"<", "unknown", ">">>,
                             <<"Field 'type' must be a string">>)>>
    ELSE IF GetStr(step, "type").v = <<"tool">>
    THEN IF ~GetStr(step, "name").some THEN <<MissingField("name")>>
         ELSE LET name == Word(GetStr(step, "name").v)
              IN  (IF name \notin registered
                   THEN <<InvalidTool(name)>> ELSE <<>>)
                  \o (IF name # "git_status" /\ ~Get(step, "input").some
                      THEN <<MissingField("input")>> ELSE <<>>)
                  \o (IF GetStr(step, "input").some
                         /\ HasPlaceholder(GetStr(step, "input").v)
                      THEN <<ToolInputMismatch(<<name>>,
                                <<"Input contains placeholder like <file>">>)>>
                      ELSE <<>>)
    ELSE IF GetStr(step, "type").v = <<"info">>
    THEN IF ~Get(step, "message").some THEN <<MissingField("message")>> ELSE <<>>
    ELSE <<UnknownType(GetStr(step, "type").v)>>

RECURSIVE validate_plan(_, _)
validate_plan(steps, registered) ==
    IF steps = <<>> THEN <<>>
    ELSE ValidateStep(Head(steps), registered)
            \o validate_plan(Tail(steps), registered)

\* The hard-coded list the planner and the replanner validate against.
registered_tools == {"run_command", "reflect", "analyze_error"}

\* A string literal, and a one- or two-member object, as Value's Display
\* prints them (compact, keys in sorted order).
Lit(s) == <<Quote>> \o s \o <<Quote>>

Pair(k, v) == Lit(<<k>>) \o <<":">> \o Lit(v)

\* PlanValidationError::hint: the message and the optional hint document.
HintMsg(e) ==
    CASE e.kind = "UnknownType" ->
            <<"Unknown step type. Only 'tool' or 'info' are valid.">>
      [] e.kind = "MissingField" -> <<"Missing required field.">>
      [] e.kind = "InvalidTool" ->
            <<"Unknown tool used. Make sure it's registered.">>
      [] e.kind = "ToolInputMismatch" -> <<"Tool input is invalid or unsafe.">>

HintDoc(e) ==
    CASE e.kind = "UnknownType" ->
            Some(<<"{">> \o Pair("input", <<"...">>) \o <<",">>
                 \o Pair("name", <<"example_tool">>) \o <<",">>
                 \o Pair("type", <<"tool">>) \o <<"}">>)
      [] e.kind = "MissingField" ->
            Some(<<"{">> \o Pair(e.a[1], <<"<", "required", ">">>) \o <<"}">>)
      [] e.kind = "InvalidTool" ->
            Some(<<"{">> \o Pair("input", <<"...">>) \o <<",">>
                 \o Pair("name", e.a) \o <<"}">>)
      [] e.kind = "ToolInputMismatch" ->
            Some(<<"{">> \o Pair("reason", e.b) \o <<",">>
                 \o Pair("tool", e.a) \o <<"}">>)

----------------------------------------------------------------------------
(* protocol: the typed conversion (PlannerResponse / ReplannerResponse) *)

Typed(steps) == [ok |-> TRUE, steps |-> steps]

TypedError == [ok |-> FALSE, steps |-> <<>>]

\* A field a derived visitor reads once: a second occurrence is an error.
Once(step, key) == Len(Members(step, key)) = 1

AtMostOnce(step, key) == Len(Members(step, key)) <= 1

\* One element of "plan" as PlannerStep (internally tagged by "type"), mapped
\* to a PlanStep; ok is FALSE when serde rejects the element.
TypedStep(step) ==
    IF step.t # "obj" \/ ~Once(step, "type") \/ ~GetStr(step, "type").some
    THEN TypedError
    ELSE IF GetStr(step, "type").v = <<"tool">>
    THEN IF /\ Once(step, "name") /\ GetStr(step, "name").some
            /\ AtMostOnce(step, "input")
            /\ (Get(step, "input").some =>
                    Get(step, "input").v.t \in {"str", "null"})
         THEN Typed(<<ToolCall(Word(GetStr(step, "name").v),
                               UnwrapOrDefault(GetStr(step, "input")))>>)
         ELSE TypedError
    ELSE IF GetStr(step, "type").v = <<"info">>
    THEN IF Once(step, "message") /\ GetStr(step, "message").some
         THEN Typed(<<Info(GetStr(step, "message").v)>>)
         ELSE TypedError
    ELSE TypedError

RECURSIVE TypedSteps(_)
TypedSteps(elements) ==
    IF elements = <<>> THEN Typed(<<>>)
    ELSE LET first == TypedStep(Head(elements))
             rest == TypedSteps(Tail(elements))
         IN  IF first.ok /\ rest.ok THEN Typed(first.steps \o rest.steps)
             ELSE TypedError

\* serde_json::from_str::<PlannerResponse>(&json_str) and the map to Plan,
\* from r, what from_str reads in json_str.
TypedPlan(r) ==
    IF ~r.ok \/ r.v.t # "obj" \/ ~AtMostOnce(r.v, "plan") THEN TypedError
    ELSE IF ~Get(r.v, "plan").some THEN Typed(<<>>)
    ELSE IF Get(r.v, "plan").v.t # "arr" THEN TypedError
    ELSE TypedSteps(Get(r.v, "plan").v.items)

----------------------------------------------------------------------------
(* tools: GoalAnalyzerTool::analyze_context *)

AnalysisOk == [kind |-> "ok", e |-> <<>>]

AnalysisErr(e) == [kind |-> "err", e |-> e]

\* The slice &post_think[json_start..json_end] with json_start > json_end.
AnalysisPanic == [kind |-> "panic", e |-> <<>>]

AllStr(items) == \A k \in DOMAIN items : items[k].t = "str"

OnceOfType(v, key, type) ==
    Once(v, key) /\ Get(v, key).v.t = type

IsPlanExample(v) ==
    /\ v.t = "obj"
    /\ OnceOfType(v, "description", "str")
    /\ OnceOfType(v, "json_plan", "str")

\* serde_json::from_str::<GoalAnalysis> accepts the text.
IsGoalAnalysis(text) ==
    LET r == from_str(text)
    IN  /\ r.ok
        /\ r.v.t = "obj"
        /\ OnceOfType(r.v, "goal_type", "str")
        /\ OnceOfType(r.v, "context_type", "str")
        /\ OnceOfType(r.v, "tool_sequence", "arr")
        /\ AllStr(Get(r.v, "tool_sequence").v.items)
        /\ OnceOfType(r.v, "examples", "arr")
        /\ \A k \in DOMAIN Get(r.v, "examples").v.items :
                IsPlanExample(Get(r.v, "examples").v.items[k])
        /\ OnceOfType(r.v, "output_format", "str")
        /\ OnceOfType(r.v, "critical_rules", "arr")
        /\ AllStr(Get(r.v, "critical_rules").v.items)

\* analyze_context from the result of its backend call on.  json_start and
\* json_end are the 1-based first and last index of the slice.
AnalyzeContext(result) ==
    IF ~result.success
    THEN AnalysisErr(<<"LLM execution failed: ", "Some(">>
                     \o Lit(UnwrapOrDefault(result.error)) \o <<")">>)
    ELSE LET response == UnwrapOrDefault(result.output)
             post_think == PostThink(response)
             json_start == IF Position(post_think, "{") = 0 THEN 1
                           ELSE Position(post_think, "{")
             json_end == IF RPosition(post_think, "}") = 0 THEN Len(post_think)
                         ELSE RPosition(post_think, "}")
             text == SubSeq(post_think, json_start, json_end)
         IN  IF json_start > json_end + 1 THEN AnalysisPanic
             ELSE IF Trim(text) = <<>>
             THEN AnalysisErr(<<"No JSON found in response: ">> \o response)
             ELSE IF IsGoalAnalysis(text) THEN AnalysisOk
             ELSE AnalysisErr(<<"Failed to parse goal analysis JSON: ", "{e}",
                                " | JSON: ">> \o text)

----------------------------------------------------------------------------
(* tools: LLMTool::execute, the backend call *)

RequestFailed == <<"Request failed: connection refused">>

\* The results of the call when the service can answer with any of texts:
\* the answer is trimmed, and the request can fail.
LLMBackend(texts) ==
    { ToolResultSuccess(Trim(t)) : t \in texts }
        \cup { ToolResultFailure(RequestFailed) }

----------------------------------------------------------------------------
(* protocol: LLMPlanner::generate_plan and                                  *)
(* LLMReplanner::generate_followup_plan.  The two bodies differ in their   *)
(* log label and messages only; w is "planner" or "replanner".  The signs  *)
(* that open some log messages are written [warn], -> and [x].             *)

Opening(w) ==
    IF w = "planner" THEN <<"Using dynamic LLM planner">>
    ELSE <<"Using dynamic LLM replanner">>

RawHeader(w) ==
    IF w = "planner" THEN <<"--- DEBUG: Raw planner output ---">>
    ELSE <<"--- DEBUG: Raw replanner output ---">>

LLMFailed(w) ==
    IF w = "planner" THEN <<"Planner LLM failed.">> ELSE <<"Replanner LLM failed.">>

ParseFailed(w) ==
    IF w = "planner" THEN <<"Failed to parse structured plan.">>
    ELSE <<"Failed to parse replanned output.">>

TypedFailed(w) ==
    IF w = "planner" THEN <<"Planner JSON parse error.">>
    ELSE <<"Replanner JSON parse error.">>

RECURSIVE LogAll(_, _, _)
\* context.log(label, c) for each c of contents, in order.
LogAll(mem, label, contents) ==
    IF contents = <<>> THEN mem
    ELSE LogAll(log(mem, label, Head(contents)), label, Tail(contents))

RECURSIVE WarningLines(_)
\* What the loop over validation_errors logs.
WarningLines(errs) ==
    IF errs = <<>> THEN <<>>
    ELSE <<<<"[warn] Validation warning: ">> \o HintMsg(Head(errs))>>
            \o (IF HintDoc(Head(errs)).some
                THEN <<<<"-> Hint: ">> \o HintDoc(Head(errs)).v>>
                ELSE <<>>)
            \o WarningLines(Tail(errs))

\* parsed_json.get("plan").and_then(|v| v.as_array()).cloned().unwrap_or_default()
PlanStepsJson(parsed_json) ==
    IF Get(parsed_json, "plan").some /\ Get(parsed_json, "plan").v.t = "arr"
    THEN Get(parsed_json, "plan").v.items
    ELSE <<>>

\* A failure plan of two steps.
FailurePlanTwice(message) == <<Info(message), Info(message)>>

\* Plan { steps: vec![PlanStep::Info(message.into())] }
FailurePlan(message) == <<Info(message)>>

Acquired(text, p, mem, errs) ==
    [json_str |-> text, plan |-> p, memory |-> mem, validation_errors |-> errs]

\* The body from the result of the planning call to the returned Plan, as
\* json_str, the plan, the log and validation_errors it leaves.
Generate(w, mem, result) ==
    LET raw == UnwrapOrDefault(result.output)
        text == JsonStr(raw)
        logged == LogAll(mem, <<w>>,
                    << RawHeader(w), raw,
                       <<"--- DEBUG: Extracted JSON block ---">>, text >>)
        parsed == from_str(text)
        errs == validate_plan(PlanStepsJson(parsed.v), registered_tools)
        warned == LogAll(logged, <<w>>, WarningLines(errs))
        response == TypedPlan(parsed)
    IN  IF ~result.success
        THEN Acquired(text, FailurePlan(LLMFailed(w)),
                      log(logged, <<w>>,
                          <<IF w = "planner" THEN "[x] Planner LLM failed: "
                            ELSE "[x] Replanner LLM failed: ">> \o raw),
                      <<>>)
        ELSE IF ~parsed.ok
        THEN Acquired(text, FailurePlan(ParseFailed(w)),
                      log(logged, <<w>>,
                          <<"[x] Failed to parse raw JSON:", "\n", "{e}", "\n",
                            "\n", "[raw]: ">> \o raw
                            \o <<"\n", "\n", "[cleaned]: ">> \o text),
                      <<>>)
        ELSE IF ~response.ok
        THEN Acquired(text, FailurePlan(TypedFailed(w)),
                      log(warned, <<w>>,
                          <<IF w = "planner"
                            THEN "[x] Failed to parse into PlannerResponse:"
                            ELSE "[x] Failed to parse into ReplannerResponse:",
                            "\n", "{e}", "\n", "\n", "[raw]: ">> \o raw
                            \o <<"\n", "\n", "[json]: ">> \o text),
                      errs)
        ELSE Acquired(text, response.steps, warned, errs)

----------------------------------------------------------------------------
(* The texts the backend can answer with *)

Field(k, value) == Lit(<<k>>) \o <<":", " ">> \o value

Obj(members) == <<"{">> \o Join(members, <<",", " ">>) \o <<"}">>

\* Steps in the wire format, and steps a backend gets wrong.
WireSteps ==
    { Obj(<<Field("type", Lit(<<"tool">>)), Field("name", Lit(<<"run_command">>)),
            Field("input", Lit(<<"x">>))>>),
      Obj(<<Field("type", Lit(<<"tool">>)), Field("name", Lit(<<"reflect">>)),
            Field("input", Lit(OutputRef("run_command")))>>),
      Obj(<<Field("type", Lit(<<"tool">>)), Field("name", Lit(<<"run_command">>)),
            Field("input", Lit(<<"curl", " ", "http:", "//", "x">>))>>),
      Obj(<<Field("type", Lit(<<"tool">>)), Field("name", Lit(<<"git_status">>))>>),
      Obj(<<Field("type", Lit(<<"info">>)), Field("message", Lit(<<"done">>))>>),
      Obj(<<Field("type", Lit(<<"loop">>))>>),
      Obj(<<Field("name", Lit(<<"run_command">>)), Field("input", Lit(<<"x">>))>>),
      Obj(<<Field("type", Lit(<<"tool">>)), Field("input", Lit(<<"x">>))>>),
      Obj(<<Field("type", Lit(<<"info">>))>>),
      Obj(<<Field("type", Lit(<<"run_command">>)), Field("input", Lit(<<"x">>))>>) }

Document(steps) ==
    Obj(<<Field("plan", <<"[">> \o Join(steps, <<",", " ">>) \o <<"]">>)>>)

Documents(n) == { Document(d) : d \in Seqs(WireSteps, n) }

\* A document alone, after a reasoning block, inside a fenced block,
\* between lines of prose, and inside the reasoning block before an answer;
\* and answers that hold no document.
PlanTexts ==
    Documents(MaxDocLen)
    \cup { <<"<think>", "hm", "</think>", "\n">> \o d : d \in Documents(MaxWrappedLen) }
    \cup { <<Fence, "json", "\n">> \o d \o <<"\n", Fence>> :
                d \in Documents(MaxWrappedLen) }
    \cup { <<"The", " ", "plan", "\n">> \o d \o <<"\n", "Done">> :
                d \in Documents(MaxWrappedLen) }
    \cup { d \o <<"\n", "</think>", "\n">> \o e :
                d \in Documents(MaxWrappedLen), e \in {<<"sorry">>, Document(<<>>)} }
    \cup { <<>>, <<"sorry">>, <<"}", " ", "{">>, <<"{", "}">>,
           <<"{", Quote, "plan", Quote, ":", " ", "[">> }

GoalAnalysisText ==
    Obj(<<Field("goal_type", Lit(<<"git">>)),
          Field("context_type", Lit(<<"initial_planning">>)),
          Field("tool_sequence", <<"[">> \o Lit(<<"run_command">>) \o <<"]">>),
          Field("examples", <<"[", "]">>),
          Field("output_format", Lit(<<"json">>)),
          Field("critical_rules", <<"[", "]">>)>>)

AnalysisTexts ==
    { <<"<think>", "{", "</think>", "\n">> \o GoalAnalysisText,
      <<>>, <<"sorry">>, <<"}", " ", "{">> }

----------------------------------------------------------------------------
(* Acquiring a plan: one call of generate_plan / generate_followup_plan *)

\* Up to the return of analyze_context: the opening log entry, the backend
\* call of the analysis, and the warning of the fallback.
AcquireAnalyze ==
    /\ pc = "acquire"
    /\ \E result \in LLMBackend(AnalysisTexts) :
        \E a \in {AnalyzeContext(result)} :
            /\ analysis' = a.kind
            /\ memory' =
                  IF a.kind = "err"
                  THEN log(log(memory, <<who>>, Opening(who)), <<who>>,
                           <<"[warn] GoalAnalyzer failed: ">> \o a.e
                              \o <<", falling back to hardcoded examples">>)
                  ELSE log(memory, <<who>>, Opening(who))
            /\ pc' = IF a.kind = "panic" THEN "panicked" ELSE "prompt"
    /\ llm_calls' = llm_calls + 1
    /\ UNCHANGED <<agentVars, validateVars, replanned, model_output, current_state, plan, followup_plan,
                   sim, exec, feedback, reflection, i, passVars, exec_calls,
                   replan_calls, who, llm_result, json_str, validation_errors>>

\* From the backend call of the planning prompt to the returned Plan.
AcquireGenerate ==
    /\ pc = "prompt"
    /\ \E result \in LLMBackend(PlanTexts) :
        \E returned \in {Generate(who, memory, result)} :
            /\ llm_result' = result
            /\ json_str' = returned.json_str
            /\ plan' = returned.plan
            /\ memory' = returned.memory
            /\ validation_errors' = returned.validation_errors
    /\ llm_calls' = llm_calls + 1
    /\ pc' = "planned"
    /\ UNCHANGED <<agentVars, validateVars, replanned, model_output, current_state, followup_plan, sim,
                   exec, feedback, reflection, i, passVars, exec_calls,
                   replan_calls, who, analysis>>

----------------------------------------------------------------------------
(* context: the map of tools *)

\* A tool as a value: its struct and the model of the LLMTool it holds
\* (the unit structs hold none).
ToolStruct(type, model) == [type |-> type, model |-> model]

\* Tool::name of each struct.
ToolName(tool) ==
    CASE tool.type = "FakeEchoTool" -> "echo"
      [] tool.type = "GitStatusTool" -> "git_status"
      [] tool.type = "ReflectorTool" -> "reflect"
      [] tool.type = "LLMTool" -> "llm"
      [] tool.type = "RunCommandTool" -> "run_command"
      [] tool.type = "ErrorAnalyzerTool" -> "analyze_error"

\* register_tool keeping the tool already stored under the name.
register_tool_keep(map, tool) ==
    [k \in DOMAIN map \cup {ToolName(tool)} |->
        IF k \in DOMAIN map THEN map[k] ELSE tool]

\* Context::register_tool: self.tools.insert(tool.name().into(), Box::new(tool))
register_tool(map, tool) ==
    [k \in DOMAIN map \cup {ToolName(tool)} |->
        IF k = ToolName(tool) THEN tool ELSE map[k]]

\* HashMap::get under Context::get_tool, on the map of tool values.
tools_get(map, key) == IF key \in DOMAIN map THEN Some(map[key]) ELSE None

RECURSIVE RegisterAll(_, _)
\* Context::new() followed by the chain of register_tool calls.
RegisterAll(map, given) ==
    IF given = <<>> THEN map
    ELSE RegisterAll(register_tool(map, Head(given)), Tail(given))

\* The chain of main, and the same followed by the error analyzer.
MainTools ==
    << ToolStruct("FakeEchoTool", ""), ToolStruct("GitStatusTool", ""),
       ToolStruct("ReflectorTool", "deepseek-r1:7b"),
       ToolStruct("LLMTool", "deepseek-r1:7b"), ToolStruct("RunCommandTool", "") >>

\* The context built for the registry in tools.
InitContext ==
    /\ registrations =
            IF "analyze_error" \in tools
            THEN Append(MainTools, ToolStruct("ErrorAnalyzerTool", "deepseek-r1:7b"))
            ELSE MainTools
    /\ tool_map = RegisterAll(<<>>, registrations)

\* The tools a caller can hand to register_tool.
ToolValues ==
    { MainTools[k] : k \in DOMAIN MainTools }
    \cup { ToolStruct("LLMTool", "llama3"), ToolStruct("ReflectorTool", "llama3") }

\* One call of register_tool while the context is built.
ContextRegisterTool ==
    /\ pc = "build"
    /\ Len(registrations) < MaxRegistrations
    /\ \E tool \in ToolValues :
        /\ tool_map' = register_tool(tool_map, tool)
        /\ registrations' = Append(registrations, tool)
    /\ tools' = DOMAIN tool_map'
    /\ UNCHANGED <<replanner, console, validateVars, replanned, acquireVars, memory,
                   model_output, current_state, exec, mainVars, i, passVars, exec_calls>>

----------------------------------------------------------------------------
(* Specifications *)

InitAgent ==
    /\ memory = <<>>
    /\ model_output = None
    /\ current_state = "Not started"
    /\ followup_plan = None
    /\ sim = None
    /\ feedback = None
    /\ reflection = None
    /\ replanned = None
    /\ i = 0
    /\ simulation = None
    /\ combined_output = <<>>
    /\ errors = <<>>
    /\ critical_failures = 0
    /\ previous_outputs = [k \in {} |-> <<>>]
    /\ trace = <<>>
    /\ exec_calls = 0
    /\ replan_calls = 0
    /\ analysis = "none"
    /\ llm_result = NoResult
    /\ json_str = <<>>
    /\ validation_errors = <<>>
    /\ llm_calls = 0

\* A run of main, which configures the replanner (main.rs 49-63).
Init ==
    /\ InitAgent
    /\ exec = None
    /\ plan_steps_json = <<>>
    /\ known_tools = registered_tools
    /\ console = RawLines
    /\ tools \in Registries
    /\ InitContext
    /\ replanner = TRUE
    /\ who = ""
    /\ pc = "plan"
    /\ plan = <<>>

Next ==
    \/ MainPlan
    \/ MainSimulate
    \/ ExecBegin
    \/ ExecInfo
    \/ ExecSkip
    \/ ExecNotFound
    \/ ExecSuccess
    \/ ExecFailure
    \/ ExecEnd
    \/ MainEvaluate
    \/ MainReflect
    \/ MainNoReflection
    \/ MainReplan
    \/ MainSimulate2

Spec == Init /\ [][Next]_vars

\* Every call of main returns: the backend, the capabilities and the console
\* answer, so main always takes its next step.
FairSpec == Spec /\ WF_vars(Next)

\* The same cycle driven on an agent that BasicAgent::new built with or
\* without a replanner.
InitCycle ==
    /\ InitAgent
    /\ exec = None
    /\ plan_steps_json = <<>>
    /\ known_tools = registered_tools
    /\ console = RawLines
    /\ tools \in Registries
    /\ InitContext
    /\ replanner \in BOOLEAN
    /\ who = ""
    /\ pc = "plan"
    /\ plan = <<>>

SpecCycle == InitCycle /\ [][Next]_vars

\* One call of agent.execute on a plan.
InitExec ==
    /\ InitAgent
    /\ exec = None
    /\ plan_steps_json = <<>>
    /\ known_tools = registered_tools
    /\ console = RawLines
    /\ tools \in Registries
    /\ InitContext
    /\ replanner = TRUE
    /\ who = ""
    /\ pc = "execute"
    /\ plan \in ExecPlans

NextExec ==
    \/ ExecBegin
    \/ ExecInfo
    \/ ExecSkip
    \/ ExecNotFound
    \/ ExecSuccess
    \/ ExecFailure
    \/ ExecEnd

SpecExec == InitExec /\ [][NextExec]_vars

\* One call of agent.execute with a console that delivers any short line.
InitConfirm ==
    /\ InitAgent
    /\ exec = None
    /\ plan_steps_json = <<>>
    /\ known_tools = registered_tools
    /\ console = ConfirmLines
    /\ tools \in Registries
    /\ InitContext
    /\ replanner = TRUE
    /\ who = ""
    /\ pc = "execute"
    /\ plan \in ConfirmPlans

SpecConfirm == InitConfirm /\ [][NextExec]_vars

\* The longest plan of the passes that start from a failure plan.
MaxFallbackLen == 2

\* main from simulate to evaluate on a plan the planner can return: its
\* failure plans, tool steps, and mixtures of both.
FailureMessages == { LLMFailed("planner"), ParseFailed("planner"), TypedFailed("planner") }

FallbackSteps ==
    { Info(m) : m \in FailureMessages }
    \cup { ToolCall("run_command", <<"x">>), ToolCall("build_docs", <<"x">>) }

FallbackPlans == Seqs(FallbackSteps, MaxFallbackLen)

InitFallback ==
    /\ InitAgent
    /\ exec = None
    /\ plan_steps_json = <<>>
    /\ known_tools = registered_tools
    /\ console = RawLines
    /\ tools \in Registries
    /\ InitContext
    /\ replanner = TRUE
    /\ who = ""
    /\ pc = "simulate"
    /\ plan \in FallbackPlans

NextFallback ==
    \/ MainSimulate
    \/ ExecBegin
    \/ ExecInfo
    \/ ExecSkip
    \/ ExecNotFound
    \/ ExecSuccess
    \/ ExecFailure
    \/ ExecEnd
    \/ MainEvaluate

SpecFallback == InitFallback /\ [][NextFallback]_vars

\* Context::new() and the register_tool calls that follow it.
InitRegister ==
    /\ InitAgent
    /\ exec = None
    /\ plan_steps_json = <<>>
    /\ known_tools = registered_tools
    /\ console = RawLines
    /\ tools = {}
    /\ tool_map = <<>>
    /\ registrations = <<>>
    /\ replanner = FALSE
    /\ who = ""
    /\ pc = "build"
    /\ plan = <<>>

NextRegister == ContextRegisterTool

SpecRegister == InitRegister /\ [][NextRegister]_vars

\* One call of generate_plan or of generate_followup_plan.
InitAcquire ==
    /\ InitAgent
    /\ exec = None
    /\ plan_steps_json = <<>>
    /\ known_tools = registered_tools
    /\ console = RawLines
    /\ tools = MainRegistry
    /\ InitContext
    /\ replanner = TRUE
    /\ who \in {"planner", "replanner"}
    /\ plan = <<>>
    /\ pc = "acquire"

NextAcquire ==
    \/ AcquireAnalyze
    \/ AcquireGenerate

SpecAcquire == InitAcquire /\ [][NextAcquire]_vars

\* The step values validate_plan is called on: tool steps over every
\* combination of name and input, steps of the other types with and without
\* a message, and elements that are not objects.
Absent == None

StepTypes == {Absent, Some(JStr(<<"tool">>)), Some(JStr(<<"info">>)), Some(JStr(<<"if">>)), Some(JNum("5"))}

StepNames == {Absent, Some(JStr(<<"run_command">>)), Some(JStr(<<"git_status">>)), Some(JStr(<<"echo">>)), Some(JNum("5"))}

StepInputs == {Absent, Some(JStr(<<"x">>)), Some(JStr(<<"<", "file", ">">>)), Some(JStr(<<"<", "file">>)), Some(JNum("5"))}

StepMessages == {Absent, Some(JStr(<<"hi">>))}

\* The member of a key, when the step has one.
StepField(key, value) == IF value.some THEN <<Member(<<key>>, value.v)>> ELSE <<>>

StepDoc(type, name, input, message) == JObj(StepField("type", type) \o StepField("name", name) \o StepField("input", input) \o StepField("message", message))

StepDocs ==
    { StepDoc(Some(JStr(<<"tool">>)), name, input, Absent) : name \in StepNames, input \in StepInputs }
        \cup { StepDoc(type, Absent, Absent, message) : type \in StepTypes \ {Some(JStr(<<"tool">>))}, message \in StepMessages }
        \cup { JStr(<<"x">>), JNull }

\* The longest list of steps validate_plan is called on.
MaxValidateLen == 2

\* validate_plan(&plan_steps_json, &registered_tools)
ValidatePlan ==
    /\ pc = "validate"
    /\ validation_errors' = validate_plan(plan_steps_json, known_tools)
    /\ pc' = "validated"
    /\ UNCHANGED <<agentVars, validateVars, memory, model_output, current_state, plan, followup_plan, sim, exec, feedback, reflection, replanned, i, passVars, exec_calls, replan_calls, who, analysis, llm_result, json_str, llm_calls>>

\* One call of validate_plan, on any list of steps and against the list of
\* the planner or the names of a registry.
InitValidate ==
    /\ InitAgent
    /\ exec = None
    /\ plan_steps_json \in Seqs(StepDocs, MaxValidateLen)
    /\ known_tools \in {registered_tools, MainRegistry}
    /\ console = RawLines
    /\ tools = MainRegistry
    /\ InitContext
    /\ replanner = TRUE
    /\ who = ""
    /\ pc = "validate"
    /\ plan = <<>>

NextValidate == ValidatePlan

SpecValidate == InitValidate /\ [][NextValidate]_vars

\* The longest output and the longest error list of an evaluated result.
MaxEvalLen == 2

\* The results execute can return: any output, any errors, and a failure
\* only with an error.
EvalResults ==
    { ExecutionResult(success, Some(output), errs) : success \in BOOLEAN, output \in Seqs({"[INFO] hi", "ok"}, MaxEvalLen), errs \in Seqs({<<"Command failed">>, <<"Tool 'x' not found">>}, MaxEvalLen) }
        \ { ExecutionResult(FALSE, Some(output), <<>>) : output \in Seqs({"[INFO] hi", "ok"}, MaxEvalLen) }

\* One call of agent.evaluate on a result of execute.
InitEvaluate ==
    /\ InitAgent
    /\ exec \in { Some(r) : r \in EvalResults }
    /\ plan_steps_json = <<>>
    /\ known_tools = registered_tools
    /\ console = RawLines
    /\ tools = MainRegistry
    /\ InitContext
    /\ replanner = TRUE
    /\ who = ""
    /\ plan = <<>>
    /\ pc = "evaluate"

NextEvaluate == MainEvaluate

SpecEvaluate == InitEvaluate /\ [][NextEvaluate]_vars


----------------------------------------------------------------------------
(* Properties *)

IsCall(e) == e.step.kind = "ToolCall"

\* The step was answered with something other than n / N.
Confirmed(e) == IsCall(e) /\ e.line # <<"n">> /\ e.line # <<"N">>

\* execute has returned and its locals are those of the pass just finished.
PassDone == i = 0 /\ exec.some

AuxiliaryNames == {"reflect", "analyze_error"}

\* The invocation of a registered capability returned a failure.
FailedCall(e) == Confirmed(e) /\ e.found /\ ~e.result.success

\* The step named a capability that is not in the registry.
FailedLookup(e) == Confirmed(e) /\ ~e.found

HasEntry(seq, x) == \E k \in DOMAIN seq : seq[k] = x

HasLabel(mem, label) == \E k \in DOMAIN mem : mem[k].label = label

Max(S) == CHOOSE x \in S : \A y \in S : y <= x

\* C1: the ExecutionResult of a pass has success = TRUE exactly when the
\* critical-failure counter is zero at the end of the pass; the counter is
\* zero when a pass starts and never decreases during a pass.
C1_SuccessIffNoCriticalFailure ==
    /\ [](PassDone => (exec.v.success <=> critical_failures = 0))
    /\ [][ /\ (i = 0 /\ i' = 1 => critical_failures' = 0)
           /\ (i >= 1 => critical_failures' >= critical_failures) ]_vars

\* A second pass has succeeded after a first pass that had a critical failure.
C1_Witness ==
    /\ pc = "done"
    /\ exec_calls = 2
    /\ feedback.v.score = 30
    /\ exec.v.success
    /\ critical_failures = 0
    /\ trace # <<>>

\* C2: a pass in which every failed invocation is one of reflect or
\* analyze_error returns success = TRUE; a pass with a failed invocation of
\* any other registered capability, or with a confirmed step naming an
\* unregistered capability, returns success = FALSE.
C2_CriticalityPartition ==
    PassDone =>
        LET auxiliaryOnly ==
                \A k \in DOMAIN trace :
                    /\ ~FailedLookup(trace[k])
                    /\ FailedCall(trace[k]) =>
                            trace[k].step.name \in AuxiliaryNames
            otherFailed ==
                \E k \in DOMAIN trace :
                    \/ FailedLookup(trace[k])
                    \/ /\ FailedCall(trace[k])
                       /\ trace[k].step.name \notin AuxiliaryNames
        IN  /\ auxiliaryOnly => exec.v.success
            /\ otherFailed => ~exec.v.success

\* reflect and analyze_error have both failed in a pass that returned success.
C2_Witness ==
    /\ PassDone
    /\ exec.v.success
    /\ \E k \in DOMAIN trace :
            FailedCall(trace[k]) /\ trace[k].step.name = "reflect"
    /\ \E k \in DOMAIN trace :
            FailedCall(trace[k]) /\ trace[k].step.name = "analyze_error"

NotFoundReported(e) ==
    /\ HasEntry(exec.v.errors, <<"Tool not found: ", e.step.name>>)
    /\ ~exec.v.success

\* C3 as stated: every ToolCall of the plan whose name is not registered
\* leaves a not-found error naming it and success = FALSE, whatever the
\* confirmation answers were.
C3_NotFoundForEveryAnswer ==
    PassDone =>
        \A k \in DOMAIN trace :
            IsCall(trace[k]) /\ trace[k].step.name \notin tools
                => NotFoundReported(trace[k])

\* C3 amended: every ToolCall whose name is not registered and whose
\* confirmation answer is not n / N leaves a not-found error naming it and
\* success = FALSE.
C3_NotFoundWhenConfirmed ==
    PassDone =>
        \A k \in DOMAIN trace :
            Confirmed(trace[k]) /\ trace[k].step.name \notin tools
                => NotFoundReported(trace[k])

\* An unregistered capability was confirmed in a pass that also had a
\* skipped step.
C3_Witness ==
    /\ PassDone
    /\ \E k \in DOMAIN trace : FailedLookup(trace[k])
    /\ \E k \in DOMAIN trace : IsCall(trace[k]) /\ ~Confirmed(trace[k])

IsNotRegisteredWarning(w, name) ==
    Len(w) = 3 /\ w[1] = "Tool '" /\ w[2] = name /\ w[3] = "' not registered"

IsDescriptiveLine(w, name) ==
    Len(w) = 7 /\ w[1] = "[TOOL] " /\ w[2] = name

CallsOf(p, name) ==
    { k \in DOMAIN p : p[k].kind = "ToolCall" /\ p[k].name = name }

\* C4: the warnings of simulate hold, for every capability name, one
\* not-registered warning per ToolCall step naming it when the name is not
\* registered and one descriptive line per such step when it is, and
\* nothing else (Info steps contribute nothing).
C4_SimulateWarnings ==
    simulation.some =>
        LET w == simulation.v.warnings
            names == { plan[k].name : k \in { j \in DOMAIN plan :
                                                 plan[j].kind = "ToolCall" } }
            notRegistered(name) ==
                { k \in DOMAIN w : IsNotRegisteredWarning(w[k], name) }
            descriptive(name) ==
                { k \in DOMAIN w : IsDescriptiveLine(w[k], name) }
        IN  /\ \A name \in names :
                 IF name \in tools
                 THEN /\ Cardinality(descriptive(name))
                            = Cardinality(CallsOf(plan, name))
                      /\ notRegistered(name) = {}
                 ELSE /\ Cardinality(notRegistered(name))
                            = Cardinality(CallsOf(plan, name))
                      /\ descriptive(name) = {}
            /\ Len(w) = Cardinality({ k \in DOMAIN plan :
                                        plan[k].kind = "ToolCall" })

\* simulate has run on a plan with an Info step, a registered and an
\* unregistered ToolCall.
C4_Witness ==
    /\ simulation.some
    /\ \E k \in DOMAIN plan : plan[k].kind = "Info"
    /\ \E k \in DOMAIN plan : plan[k].kind = "ToolCall" /\ plan[k].name \in tools
    /\ \E k \in DOMAIN plan :
            plan[k].kind = "ToolCall" /\ plan[k].name \notin tools

\* The whole input is a reference $output[key].
WholeRef(input) ==
    Len(input) >= 2 /\ input[1] = "$output[" /\ input[Len(input)] = "]"

RefKey(input) == SubSeq(input, 2, Len(input) - 1)

\* The earlier iterations of the pass in which the capability named by key
\* succeeded with an output.
Successes(k, key) ==
    { j \in 1..(k - 1) :
        /\ Confirmed(trace[j])
        /\ <<trace[j].step.name>> = key
        /\ trace[j].found
        /\ trace[j].result.success
        /\ trace[j].result.output.some }

\* What a reference to key stands for at iteration k of the pass.
Captured(k, key) ==
    IF Successes(k, key) = {}
    THEN <<"(missing output for '">> \o key \o <<"')">>
    ELSE trace[Max(Successes(k, key))].result.output.v

\* C5: a ToolCall whose input is the reference $output[x] is given the
\* output of the most recent earlier step of the pass in which x succeeded,
\* or the missing-output literal when there is none; the step then goes on
\* to its confirmation and, when confirmed and registered, to the invocation
\* with that input.
C5_WholeReferenceResolved ==
    \A k \in DOMAIN trace :
        LET e == trace[k] IN
        IsCall(e) /\ WholeRef(e.step.input) =>
            /\ e.resolved_input = Captured(k, RefKey(e.step.input))
            /\ e.line \in { Trim(raw) : raw \in RawLines }
            /\ Confirmed(e) /\ e.step.name \in tools => e.found
            /\ Confirmed(e) /\ e.step.name = "echo" =>
                    e.result.output
                        = Some(<<"Echoed:", " ">>
                                 \o Captured(k, RefKey(e.step.input)))

\* run_command succeeded, then failed, and the reference of the third step
\* was given the output of the first.
C5_Witness ==
    /\ Len(trace) = 3
    /\ trace[1].step.name = "run_command"
    /\ trace[1].result.success
    /\ trace[2].step.name = "run_command"
    /\ FailedCall(trace[2])
    /\ WholeRef(trace[3].step.input)
    /\ Confirmed(trace[3])
    /\ trace[3].resolved_input = trace[1].result.output.v

\* The input with every reference $output[x] in it replaced.
RECURSIVE ExpandRefs(_, _)
ExpandRefs(s, k) ==
    IF s = <<>> THEN <<>>
    ELSE IF Len(s) >= 3 /\ s[1] = "$output[" /\ s[3] = "]"
    THEN Captured(k, <<s[2]>>) \o ExpandRefs(SubSeq(s, 4, Len(s)), k)
    ELSE <<Head(s)>> \o ExpandRefs(Tail(s), k)

\* C6 as stated: a reference $output[x] is resolved wherever it occurs in
\* the input of a ToolCall.
C6_ReferenceResolvedAnywhere ==
    \A k \in DOMAIN trace :
        IsCall(trace[k]) =>
            trace[k].resolved_input = ExpandRefs(trace[k].step.input, k)

\* C6 amended: a reference is resolved against the outputs captured earlier
\* in the pass only when it is the whole input; any other input, a
\* reference embedded in it included, is passed on unchanged.
C6_ReferenceResolvedWhenWhole ==
    \A k \in DOMAIN trace :
        LET e == trace[k] IN
        IsCall(e) =>
            e.resolved_input =
                IF WholeRef(e.step.input)
                THEN Captured(k, RefKey(e.step.input))
                ELSE e.step.input

\* After run_command succeeded, echo was invoked with an input that embeds
\* a reference, and echoed it unresolved.
C6_Witness ==
    \E k \in DOMAIN trace :
        /\ Successes(k, <<"run_command">>) # {}
        /\ Confirmed(trace[k])
        /\ trace[k].step.name = "echo"
        /\ ~WholeRef(trace[k].step.input)
        /\ HasEntry(trace[k].step.input, "$output[")
        /\ trace[k].result.output
                = Some(<<"Echoed:", " ">> \o trace[k].step.input)

\* C7: previous_outputs is empty when a pass starts, and in the follow-up
\* pass a reference stands for what was captured in the follow-up pass
\* alone: the missing-output literal unless the capability succeeded
\* earlier in that pass.
C7_OutputsScopedToPass ==
    /\ pc \in {"execute", "execute2"} /\ i = 1 => DOMAIN previous_outputs = {}
    /\ pc = "execute2" =>
            \A k \in DOMAIN trace :
                IsCall(trace[k]) /\ WholeRef(trace[k].step.input) =>
                    trace[k].resolved_input
                        = Captured(k, RefKey(trace[k].step.input))

\* run_command succeeded in the first pass and a reference to it in the
\* follow-up pass was given the missing-output literal.
C7_Witness ==
    /\ pc = "execute2"
    /\ exec.v.output \in { Some(o) : o \in CommandOutputs }
    /\ trace # <<>>
    /\ trace[1].step.input = <<"$output[", "run_command", "]">>
    /\ Confirmed(trace[1])
    /\ trace[1].resolved_input
            = <<"(missing output for '", "run_command", "')">>

\* The content of the last entry of the log with the label.
LastWithLabel(mem, label) ==
    mem[Max({ k \in DOMAIN mem : mem[k].label = label })].content

\* The replanner has returned and the follow-up pass has not finished: exec
\* is still the result of the first pass.
AfterReplan == replan_calls >= 1 /\ (exec_calls = 1 \/ pc = "execute2")

\* C8: the replanner is invoked, and a second execution started, only when
\* the preceding pass returned success = FALSE.
C8_ReplanOnlyAfterFailure ==
    /\ AfterReplan => ~exec.v.success
    /\ pc = "execute2" => ~exec.v.success

C10_AtMostOneReplanningCycle ==
    /\ <>(pc = "done")
    /\ [](replan_calls <= 1 /\ exec_calls <= 2)

\* A run has ended after one replanning cycle and two executions.
C10_Witness == pc = "done" /\ replan_calls = 1 /\ exec_calls = 2

----------------------------------------------------------------------------
(* Properties of plan acquisition *)

\* generate_plan / generate_followup_plan has returned.
Planned == pc = "planned"

IsPlanStep(st) ==
    \/ st.kind = "Info" /\ st = Info(st.message)
    \/ st.kind = "ToolCall" /\ st = ToolCall(st.name, st.input)

\* C11: when the backend call of the planning prompt reports failure, or the
\* extracted text does not parse as JSON, or the typed conversion of the
\* document fails, the call returns a plan of exactly one Info step; what
\* the caller receives is always a Plan, never an error value.
C11_FailureIsOneInfoStep ==
    Planned =>
        /\ \A k \in DOMAIN plan : IsPlanStep(plan[k])
        /\ (\/ ~llm_result.success
            \/ ~from_str(json_str).ok
            \/ ~TypedPlan(from_str(json_str)).ok)
                => Len(plan) = 1 /\ plan[1].kind = "Info"

\* The backend answered, the document parsed, and its typed conversion
\* failed: the plan returned is the one Info step of that failure.
C11_Witness ==
    /\ Planned
    /\ llm_result.success
    /\ from_str(json_str).ok
    /\ ~TypedPlan(from_str(json_str)).ok
    /\ plan = <<Info(TypedFailed(who))>>

\* C12: whatever text the backend answers with, to the goal-analysis prompt
\* and to the planning prompt, the call returns a Plan; the process is never
\* aborted.
C12_NeverAborts == pc # "panicked"

RECURSIVE IsSubseq(_, _)
\* a is b with some elements left out.
IsSubseq(a, b) ==
    IF a = <<>> THEN TRUE
    ELSE IF b = <<>> THEN FALSE
    ELSE IF Head(a) = Head(b) THEN IsSubseq(Tail(a), Tail(b))
    ELSE IsSubseq(a, Tail(b))

RECURSIVE Unwarned(_)
\* The typed conversion of the steps that drew no validator warning.
Unwarned(steps) ==
    IF steps = <<>> THEN <<>>
    ELSE (IF ValidateStep(Head(steps), registered_tools) = <<>>
             /\ TypedStep(Head(steps)).ok
          THEN TypedStep(Head(steps)).steps ELSE <<>>)
            \o Unwarned(Tail(steps))

\* The extracted document is a JSON object with a plan array.
HasPlanArray(r) ==
    r.ok /\ r.v.t = "obj" /\ Get(r.v, "plan").some /\ Get(r.v, "plan").v.t = "arr"

\* C13: when the extracted document parses as a JSON object with a plan
\* array, warnings on some of its steps do not turn the result into the
\* one-step failure plan, and the returned Plan contains, in order, the typed
\* conversion of every step that drew no warning.
C13_WarningsNeverBlock ==
    (Planned /\ llm_result.success /\ HasPlanArray(from_str(json_str))) =>
        /\ plan # <<Info(TypedFailed(who))>>
        /\ IsSubseq(Unwarned(PlanStepsJson(from_str(json_str).v)), plan)

\* An element of "plan" in the wire format: a tool step with a string name
\* and an optional string input, or an info step with a string message.
IsWireStep(e) ==
    /\ e.t = "obj"
    /\ Once(e, "type")
    /\ \/ /\ GetStr(e, "type") = Some(<<"tool">>)
          /\ Once(e, "name") /\ GetStr(e, "name").some
          /\ AtMostOnce(e, "input")
          /\ Get(e, "input").some => GetStr(e, "input").some
       \/ /\ GetStr(e, "type") = Some(<<"info">>)
          /\ Once(e, "message") /\ GetStr(e, "message").some

IsWireDocument(r) ==
    /\ HasPlanArray(r)
    /\ Len(r.v.items) = 1
    /\ \A k \in DOMAIN PlanStepsJson(r.v) : IsWireStep(PlanStepsJson(r.v)[k])

\* The PlanStep a wire-format step stands for.
StepOf(e) ==
    IF GetStr(e, "type") = Some(<<"tool">>)
    THEN ToolCall(Word(GetStr(e, "name").v), UnwrapOrDefault(GetStr(e, "input")))
    ELSE Info(GetStr(e, "message").v)

\* C14: when the backend returns a valid wire-format document, the Plan
\* returned has the document's steps, as many and in the same order, each
\* ToolCall with exactly the document's name and input (empty when absent)
\* and each Info with exactly the document's message.
C14_WireDocumentRoundTrip ==
    LET r == from_str(UnwrapOrDefault(llm_result.output))
    IN  (Planned /\ llm_result.success /\ IsWireDocument(r)) =>
            plan = [k \in DOMAIN PlanStepsJson(r.v) |-> StepOf(PlanStepsJson(r.v)[k])]

(***************************************************************************)
(* Properties of replanning                                                *)
(***************************************************************************)

\* main has called agent.replan: the reflection it handed over is set.
Replanned == reflection.some

\* C15: BasicAgent.replan returns None exactly when no replanner is
\* configured or the replanner's plan has no steps; otherwise it returns
\* Some of exactly the plan the replanner produced (same steps, same order).
C15_ReplanNoneIffNothingToDo ==
    Replanned =>
        /\ (followup_plan = None) <=> (~replanner \/ replanned.v = <<>>)
        /\ followup_plan.some => followup_plan = replanned

\* replan returned Some of a two-step plan whose steps differ.
C15_Witness ==
    /\ Replanned
    /\ replanner
    /\ followup_plan.some
    /\ Len(followup_plan.v) = 2
    /\ followup_plan.v[1] # followup_plan.v[2]
    /\ followup_plan = replanned

(***************************************************************************)
(* Properties of the result of a pass                                      *)
(***************************************************************************)

\* The line a step of the pass contributes to the output.
OutputLine(e) ==
    IF e.step.kind = "Info" THEN <<"[INFO]", " ">> \o e.step.message
    ELSE e.result.output.v

RECURSIVE OutputLines(_)
OutputLines(t) ==
    IF t = <<>> THEN <<>>
    ELSE IF Len(t) = 1 THEN OutputLine(t[1])
    ELSE OutputLine(t[1]) \o <<"\n">> \o OutputLines(Tail(t))

\* Every ToolCall of the pass was confirmed and succeeded with an output.
AllSucceeded ==
    \A k \in DOMAIN trace :
        IsCall(trace[k]) =>
            /\ Confirmed(trace[k])
            /\ trace[k].found
            /\ trace[k].result.success
            /\ trace[k].result.output.some

\* C16: for a pass in which every ToolCall is confirmed and succeeds with an
\* output, the output of the ExecutionResult is the in-order concatenation
\* of one line per step ("[INFO] <message>" for an Info step, the
\* capability's output for a ToolCall step), trimmed of leading and trailing
\* whitespace, errors is empty and success is true.
C16_AllSuccessOutput ==
    (PassDone /\ AllSucceeded) =>
        /\ exec.v.output = Some(Trim(OutputLines(trace)))
        /\ exec.v.errors = <<>>
        /\ exec.v.success

\* A finished pass of an Info step followed by ToolCall steps that were
\* confirmed and succeeded, the last one after the first one's output.
C16_Witness ==
    /\ PassDone
    /\ AllSucceeded
    /\ Len(trace) = 3
    /\ trace[1].step.kind = "Info"
    /\ IsCall(trace[2])
    /\ IsCall(trace[3])
    /\ trace[2].result.output # trace[3].result.output

\* What the iterations of t leave in errors: the failure text of each failed
\* invocation and the not-found text of each failed lookup, in step order.
RECURSIVE ReportedErrors(_)
ReportedErrors(t) ==
    IF t = <<>> THEN <<>>
    ELSE LET e == Head(t)
         IN  (IF FailedCall(e) THEN <<e.result.error.v>>
              ELSE IF FailedLookup(e)
                   THEN << <<"Tool not found: ", e.step.name>> >>
                   ELSE <<>>)
             \o ReportedErrors(Tail(t))

\* No step of the pass failed critically.
NoCriticalFailure ==
    \A k \in DOMAIN trace :
        /\ ~FailedLookup(trace[k])
        /\ FailedCall(trace[k]) => trace[k].step.name \in AuxiliaryNames

\* The automatic error analysis of the iteration was invoked and failed.
FailedAnalysis(e) == e.analysed /\ ~e.analysis_result.success

\* The same, were the failed automatic invocations reported as well.
RECURSIVE InvocationErrors(_)
InvocationErrors(t) ==
    IF t = <<>> THEN <<>>
    ELSE LET e == Head(t)
         IN  (IF FailedCall(e) THEN <<e.result.error.v>>
              ELSE IF FailedLookup(e)
                   THEN << <<"Tool not found: ", e.step.name>> >>
                   ELSE <<>>)
             \o (IF FailedAnalysis(e) THEN <<e.analysis_result.error.v>>
                 ELSE <<>>)
             \o InvocationErrors(Tail(t))

\* C17 as stated: every failed capability invocation in a pass, critical or
\* not, appends exactly one error text (the capability's failure text) to
\* errors, in plan-step order.  The automatic analyze_error invocation that
\* fails appends nothing.
C17_EveryFailedInvocationReported ==
    PassDone => exec.v.errors = InvocationErrors(trace)

\* C17 (amended): every failed invocation of a plan step's capability,
\* critical or not, appends exactly one error text, the capability's
\* failure text, to the errors of the ExecutionResult, which lists them in
\* plan-step order; a failed automatic analyze_error invocation appends
\* none; a failing reflect step leaves its failure text in errors while
\* success stays true.
C17_OneErrorPerFailedInvocation ==
    PassDone =>
        /\ exec.v.errors = ReportedErrors(trace)
        /\ \A k \in DOMAIN trace :
              (FailedCall(trace[k]) /\ trace[k].step.name = "reflect") =>
                  /\ HasEntry(exec.v.errors, trace[k].result.error.v)
                  /\ NoCriticalFailure => exec.v.success

\* A finished pass in which run_command failed, its automatic analysis
\* failed, and then reflect failed: two failure texts, in step order.
C17_Witness ==
    /\ PassDone
    /\ Len(trace) >= 2
    /\ FailedCall(trace[1])
    /\ trace[1].step.name = "run_command"
    /\ FailedCall(trace[2])
    /\ FailedAnalysis(trace[1])
    /\ trace[2].step.name = "reflect"
    /\ exec.v.errors = <<trace[1].result.error.v, trace[2].result.error.v>>
    /\ ~exec.v.success

(***************************************************************************)
(* Properties of the confirmation                                          *)
(***************************************************************************)

\* The step of the loop just taken was a ToolCall answered n or N.
SkipTaken ==
    /\ InLoop
    /\ i' = i + 1
    /\ trace' # trace
    /\ IsCall(trace'[Len(trace')])
    /\ trace'[Len(trace')].line \in {<<"n">>, <<"N">>}

\* C18: a ToolCall step answered n or N is skipped with no effect: its
\* capability is not invoked, and the output buffer, the error list, the
\* critical-failure counter, the captured-output map and the audit log are
\* unchanged by that step.
C18_SkipHasNoEffect ==
    [][SkipTaken =>
        /\ ~trace'[Len(trace')].found
        /\ trace'[Len(trace')].result = NoResult
        /\ ~trace'[Len(trace')].analysed
        /\ combined_output' = combined_output
        /\ errors' = errors
        /\ critical_failures' = critical_failures
        /\ previous_outputs' = previous_outputs
        /\ memory' = memory]_vars

\* The second step has just been answered N after the first one succeeded
\* with an output: the buffer, the map and the log hold what the first
\* step left and nothing more.
C18_Witness ==
    /\ InLoop
    /\ i = 3
    /\ Len(trace) = 2
    /\ Confirmed(trace[1])
    /\ trace[1].found
    /\ trace[1].result.success
    /\ trace[1].result.output.some
    /\ IsCall(trace[2])
    /\ trace[2].line = <<"N">>
    /\ combined_output = trace[1].result.output.v \o <<"\n">>
    /\ DOMAIN previous_outputs = {<<trace[1].step.name>>}
    /\ Len(memory) = 1
    /\ errors = <<>>
    /\ critical_failures = 0

\* The step of the loop just taken was a ToolCall.
CallTaken ==
    /\ InLoop
    /\ i' = i + 1
    /\ trace' # trace
    /\ IsCall(trace'[Len(trace')])

\* What read_line delivered at the step just taken.
Response == trace'[Len(trace')].raw_line

\* The step just taken went no further than its prompt: nothing was looked
\* up, invoked, reported or logged.
WasSkipped == memory' = memory /\ errors' = errors

WithoutTerminator(raw) ==
    IF raw # <<>> /\ raw[Len(raw)] = "\n" THEN SubSeq(raw, 1, Len(raw) - 1)
    ELSE raw

\* C19 as stated: a ToolCall step is skipped only when the response, once
\* its line terminator is removed, is exactly n or exactly N; every other
\* response proceeds.  A response with blanks around the n is skipped too.
C19_SkipOnlyOnExactAnswer ==
    [][CallTaken =>
        (WasSkipped <=> WithoutTerminator(Response) \in {<<"n">>, <<"N">>})]_vars

\* C19 (amended): a ToolCall step is skipped exactly when the response,
\* once its leading and trailing whitespace (the line terminator included)
\* is removed, is n or N; every other response (empty, blank, y, or any
\* other text) is treated as confirmation and the step proceeds.
C19_SkipOnTrimmedAnswer ==
    [][CallTaken =>
        (WasSkipped <=> Trim(Response) \in {<<"n">>, <<"N">>})]_vars

\* A step answered with a blank before the n has just been skipped.
C19_Witness ==
    /\ pc = "execute"
    /\ i = 2
    /\ Len(trace) = 1
    /\ IsCall(trace[1])
    /\ trace[1].raw_line = <<" ", "n", "\n">>
    /\ memory = <<>>
    /\ errors = <<>>

(***************************************************************************)
(* Properties of the automatic error analysis                              *)
(***************************************************************************)

\* The invocation of a registered capability failed critically.
CriticalCall(e) == FailedCall(e) /\ e.step.name \notin AuxiliaryNames

\* The text the iteration left in errors.
FailureText(e) ==
    IF FailedLookup(e) THEN <<"Tool not found: ", e.step.name>>
    ELSE e.result.error.v

\* The analyzer was invoked with the failure text of the iteration.
Triggered(e) ==
    /\ e.analysed
    /\ e.analysis_input = Some(FailureText(e))
    /\ e.analysis_result \in ToolExecute("analyze_error", FailureText(e))

NotTriggered(e) ==
    /\ ~e.analysed
    /\ e.analysis_input = None
    /\ e.analysis_result = NoResult

\* The outputs of the analyses of t that succeeded with one, in step order.
RECURSIVE AnalysisOutputs(_)
AnalysisOutputs(t) ==
    IF t = <<>> THEN <<>>
    ELSE LET r == Head(t).analysis_result
         IN  (IF Head(t).analysed /\ r.success /\ r.output.some
              THEN <<r.output.v>> ELSE <<>>)
             \o AnalysisOutputs(Tail(t))

\* The contents of the entries of mem under label, in log order.
RECURSIVE Logged(_, _)
Logged(mem, label) ==
    IF mem = <<>> THEN <<>>
    ELSE (IF Head(mem).label = label THEN <<Head(mem).content>> ELSE <<>>)
         \o Logged(Tail(mem), label)

\* C20 as stated: with analyze_error registered, every critical failure of
\* a pass, that of an unregistered capability included, has the analyzer
\* invoked with the failure's text, each analysis that succeeds with an
\* output is logged under error_analysis, and nothing else triggers it.
C20_EveryCriticalFailureAnalysed ==
    get_tool("analyze_error").some =>
        /\ \A k \in DOMAIN trace :
              IF CriticalCall(trace[k]) \/ FailedLookup(trace[k])
              THEN Triggered(trace[k])
              ELSE NotTriggered(trace[k])
        /\ Logged(memory, <<"error_analysis">>) = AnalysisOutputs(trace)

\* C20 (amended): with analyze_error registered, every critical failure of
\* an invoked capability has the analyzer invoked with the failure's text
\* and, when the analysis succeeds with an output, that output appended to
\* the audit log under error_analysis; the critical failure of a step that
\* names an unregistered capability, a non-critical failure, a success and
\* a skipped step never trigger it.
C20_CriticalInvocationAnalysed ==
    get_tool("analyze_error").some =>
        /\ \A k \in DOMAIN trace :
              IF CriticalCall(trace[k])
              THEN Triggered(trace[k])
              ELSE NotTriggered(trace[k])
        /\ Logged(memory, <<"error_analysis">>) = AnalysisOutputs(trace)

\* A finished pass with the analyzer registered: an unregistered capability
\* left unanalysed, a failure of run_command analysed with success, and a
\* failure of reflect left unanalysed; one error_analysis entry.
C20_Witness ==
    /\ PassDone
    /\ get_tool("analyze_error").some
    /\ Len(trace) = 3
    /\ FailedLookup(trace[1])
    /\ CriticalCall(trace[2])
    /\ trace[2].analysis_result.success
    /\ FailedCall(trace[3])
    /\ trace[3].step.name = "reflect"
    /\ Logged(memory, <<"error_analysis">>) = <<trace[2].analysis_result.output.v>>
    /\ exec.v.errors = <<FailureText(trace[1]), FailureText(trace[2]),
                         FailureText(trace[3])>>

(***************************************************************************)
(* Properties of the audit log                                             *)
(***************************************************************************)

IsPrefix(a, b) == Len(a) <= Len(b) /\ SubSeq(b, 1, Len(a)) = a

\* C21: the audit log is append-only and insertion-ordered: every step of a
\* run (plan, simulate, execute, evaluate, replan, log) leaves the log it
\* found as a prefix of the log it leaves, so the log at an earlier moment
\* is a prefix of the log at any later moment, and read_all returns the
\* entries in the order they were appended without changing the log.
C21_LogAppendOnly ==
    [][/\ IsPrefix(memory, memory')
       /\ read_all(memory) = memory
       /\ (pc = "followup" /\ ~HasLabel(memory, <<"reflect">>)) =>
                memory' = memory]_vars

\* The log of a finished run: the entries of planning, of the steps of the
\* first pass, of the reflection and of the replanning, in that order.
C21_Witness ==
    /\ pc = "done"
    /\ Len(memory) >= 6
    /\ memory[1].label = <<"planning">>
    /\ memory[2].label = <<"planner">>
    /\ memory[3].label = <<"info">>
    /\ memory[4].label = <<"reflect">>
    /\ memory[5].label = <<"replanner">>
    /\ memory[Len(memory)].label \notin
            {<<"planning">>, <<"planner">>, <<"reflect">>, <<"replanner">>}

(***************************************************************************)
(* Properties of the acquisition log                                       *)
(***************************************************************************)

\* The contents of the log, in order.
Contents(mem) == [k \in DOMAIN mem |-> mem[k].content]

\* C22: after a call to generate_plan, on the success path and on every
\* failure path, the log holds an entry with the raw backend output, a later
\* one with the cleaned text and a later one with the extracted document,
\* directly followed by the entries of the validator warnings (each with its
\* hint when it has one).
C22_StagesLogged ==
    Planned =>
        \E raw \in {UnwrapOrDefault(llm_result.output)} :
        \E cleaned \in {Cleaned(PostThink(raw))} :
        \E warnings \in {WarningLines(validation_errors)} :
        \E a, b, c \in DOMAIN memory :
            /\ a < b /\ b < c
            /\ memory[a].content = raw
            /\ memory[b].content = cleaned
            /\ memory[c].content = json_str
            /\ c + Len(warnings) <= Len(memory)
            /\ SubSeq(Contents(memory), c + 1, c + Len(warnings)) = warnings

\* C23: each call to generate_plan invokes the text-generation backend
\* exactly once.
C23_OneBackendCall == Planned => llm_calls = 1

(***************************************************************************)
(* Properties of validate_plan                                             *)
(***************************************************************************)

Validated == pc = "validated"

\* The step is an object whose type is the string "tool".
IsToolDoc(step) == GetStr(step, "type") = Some(<<"tool">>)

\* How many of the warnings are the given one.
Drawn(warning) == Cardinality({ k \in DOMAIN validation_errors : validation_errors[k] = warning })

\* The tool steps without an input field whose name is a string other than
\* git_status, and those whose name is not git_status in any way (no name
\* or a name that is not a string included).
NeedsInput(step) == IsToolDoc(step) /\ ~Get(step, "input").some /\ GetStr(step, "name").some /\ GetStr(step, "name").v # <<"git_status">>

NotStatusQuery(step) == IsToolDoc(step) /\ ~Get(step, "input").some /\ GetStr(step, "name") # Some(<<"git_status">>)

\* C24 as stated: every tool step that has no input field and whose name is
\* not git_status draws MissingField("input"), and a git_status step without
\* input draws none: the result holds one MissingField("input") for each
\* such step.
C24_MissingInputUnlessStatusQuery ==
    Validated => Drawn(MissingField("input")) = Cardinality({ k \in DOMAIN plan_steps_json : NotStatusQuery(plan_steps_json[k]) })

\* C24, amended: every tool step whose name is a string other than
\* git_status and that has no input field draws MissingField("input"); a
\* git_status step without input draws none, and neither does a tool step
\* whose name is missing or not a string.
C24_MissingInputForNamedStep ==
    Validated => Drawn(MissingField("input")) = Cardinality({ k \in DOMAIN plan_steps_json : NeedsInput(plan_steps_json[k]) })

C24_Witness ==
    /\ Validated
    /\ Len(plan_steps_json) = 2
    /\ NeedsInput(plan_steps_json[1])
    /\ IsToolDoc(plan_steps_json[2])
    /\ GetStr(plan_steps_json[2], "name") = Some(<<"git_status">>)
    /\ ~Get(plan_steps_json[2], "input").some
    /\ Drawn(MissingField("input")) = 1

\* The warning a tool step of the name draws for a placeholder in its input.
PlaceholderWarning(name) == ToolInputMismatch(<<name>>, <<"Input contains placeholder like <file>">>)

\* How many of the warnings are placeholder warnings.
PlaceholdersDrawn == Cardinality({ k \in DOMAIN validation_errors : validation_errors[k].kind = "ToolInputMismatch" /\ validation_errors[k].b = <<"Input contains placeholder like <file>">> })

\* The tool steps whose input is a string containing both '<' and '>'.
HasTemplateInput(step) == IsToolDoc(step) /\ GetStr(step, "input").some /\ HasPlaceholder(GetStr(step, "input").v)

\* C25 as stated: every tool step whose input is a string containing both
\* '<' and '>' draws a ToolInputMismatch warning, whether or not its name is
\* a known capability: the result holds one such warning for each such step.
C25_PlaceholderAlwaysWarned ==
    Validated => PlaceholdersDrawn = Cardinality({ k \in DOMAIN plan_steps_json : HasTemplateInput(plan_steps_json[k]) })

\* C25, amended: every tool step with a string name whose input is a string
\* containing both '<' and '>' draws a ToolInputMismatch warning carrying
\* that name, whether or not the name is a known capability; a tool step
\* whose name is missing or not a string draws none.
C25_PlaceholderWarnedForNamedStep ==
    Validated =>
        /\ PlaceholdersDrawn = Cardinality({ k \in DOMAIN plan_steps_json : HasTemplateInput(plan_steps_json[k]) /\ GetStr(plan_steps_json[k], "name").some })
        /\ \A k \in DOMAIN plan_steps_json :
                (HasTemplateInput(plan_steps_json[k]) /\ GetStr(plan_steps_json[k], "name").some)
                    => Drawn(PlaceholderWarning(Word(GetStr(plan_steps_json[k], "name").v))) >= 1

C25_Witness ==
    /\ Validated
    /\ Len(plan_steps_json) = 2
    /\ HasTemplateInput(plan_steps_json[1])
    /\ GetStr(plan_steps_json[1], "name") = Some(<<"echo">>)
    /\ "echo" \notin known_tools
    /\ HasTemplateInput(plan_steps_json[2])
    /\ GetStr(plan_steps_json[2], "name") = Some(<<"run_command">>)
    /\ validation_errors = <<InvalidTool("echo"), PlaceholderWarning("echo"), PlaceholderWarning("run_command")>>

InSeq(x, seq) == \E k \in DOMAIN seq : seq[k] = x

\* The step breaks none of the rules of the validator.
BreaksNoRule(step, known) ==
    \/ GetStr(step, "type") = Some(<<"info">>) /\ Get(step, "message").some
    \/ /\ IsToolDoc(step)
       /\ GetStr(step, "name").some
       /\ Word(GetStr(step, "name").v) \in known
       /\ Get(step, "input").some \/ GetStr(step, "name").v = <<"git_status">>
       /\ ~HasTemplateInput(step)

\* What the claim says of the warnings of one step.
Classified(step, known, seg) ==
    /\ ~Get(step, "type").some => seg = <<MissingField("type")>>
    /\ (Get(step, "type").some /\ ~GetStr(step, "type").some)
            => (Len(seg) = 1 /\ seg[1].kind = "ToolInputMismatch")
    /\ (GetStr(step, "type") = Some(<<"info">>) /\ ~Get(step, "message").some)
            => InSeq(MissingField("message"), seg)
    /\ (IsToolDoc(step) /\ ~GetStr(step, "name").some)
            => InSeq(MissingField("name"), seg)
    /\ (IsToolDoc(step) /\ GetStr(step, "name").some /\ Word(GetStr(step, "name").v) \notin known)
            => InSeq(InvalidTool(Word(GetStr(step, "name").v)), seg)
    /\ (GetStr(step, "type").some /\ GetStr(step, "type").v \notin {<<"tool">>, <<"info">>})
            => InSeq(UnknownType(GetStr(step, "type").v), seg)
    /\ BreaksNoRule(step, known) => seg = <<>>

\* The warnings split, in step order, into the warnings of each step.
RECURSIVE SplitsInto(_, _, _)
SplitsInto(steps, known, warnings) ==
    IF steps = <<>> THEN warnings = <<>>
    ELSE \E n \in 0..Len(warnings) :
            /\ Classified(Head(steps), known, SubSeq(warnings, 1, n))
            /\ SplitsInto(Tail(steps), known, SubSeq(warnings, n + 1, Len(warnings)))

\* C26: validate_plan returns a list for every document, and the list is, in
\* step order, the warnings of each step, classified by the type field:
\* absent gives exactly MissingField("type"), not a string exactly one
\* ToolInputMismatch, "info" without message MissingField("message"), "tool"
\* without a name MissingField("name"), "tool" with a name outside the known
\* set InvalidTool(name), any other string UnknownType(value), and a step
\* breaking no rule nothing.
C26_TotalAndClassified ==
    /\ pc = "validate" => ENABLED ValidatePlan
    /\ Validated => SplitsInto(plan_steps_json, known_tools, validation_errors)

C26_Witness ==
    /\ Validated
    /\ Len(plan_steps_json) = 2
    /\ GetStr(plan_steps_json[1], "type") = Some(<<"if">>)
    /\ Get(plan_steps_json[2], "type").some
    /\ ~GetStr(plan_steps_json[2], "type").some
    /\ Len(validation_errors) = 2
    /\ validation_errors[1] = UnknownType(<<"if">>)
    /\ validation_errors[2].kind = "ToolInputMismatch"

(***************************************************************************)
(* Properties of evaluate                                                  *)
(***************************************************************************)

\* C27: the Feedback evaluate returns is a function of the success of the
\* result alone: every result that agrees with the evaluated one on success
\* gets the same score and notes whatever its output and errors are, the
\* score lies in 0..100, and the score of a success is strictly higher than
\* the score of a failure.
C27_FeedbackFromSuccessAlone ==
    [][pc = "evaluate" =>
        /\ feedback'.some
        /\ feedback'.v.score \in 0..100
        /\ \A r \in EvalResults :
            /\ r.success = exec.v.success => Evaluate(r) = feedback'.v
            /\ (exec.v.success /\ ~r.success) => feedback'.v.score > Evaluate(r).score
            /\ (~exec.v.success /\ r.success) => feedback'.v.score < Evaluate(r).score]_vars

C27_Witness ==
    /\ pc = "reflect"
    /\ feedback.some
    /\ exec.some
    /\ exec.v.success
    /\ exec.v.errors # <<>>
    /\ feedback.v.score > 30

(***************************************************************************)
(* Properties of simulate                                                  *)
(***************************************************************************)

\* C28: simulate changes nothing: the log, the registry, the task model and
\* the plans are the same before and after the call, no capability is
\* executed (no pass begins and none advances), and simulate called again on
\* the same plan and registry, as execute does when it begins, returns the
\* same result.
C28_SimulateChangesNothing ==
    [][/\ pc \in {"simulate", "simulate2"} =>
            /\ sim'.some
            /\ memory' = memory
            /\ tools' = tools
            /\ model_output' = model_output
            /\ current_state' = current_state
            /\ plan' = plan
            /\ followup_plan' = followup_plan
            /\ exec_calls' = exec_calls
            /\ i' = i
            /\ passVars' = passVars
       /\ (pc \in {"execute", "execute2"} /\ i = 0) => simulation' = sim]_vars

C28_Witness ==
    /\ pc = "execute2"
    /\ i = 1
    /\ sim.some
    /\ simulation = sim
    /\ sim.v.warnings # <<>>
    /\ sim.v.predicted_outcome.steps = Len(followup_plan.v)
    /\ memory # <<>>

(***************************************************************************)
(* Properties of the known-capability set                                  *)
(***************************************************************************)

\* C29: the planner and the replanner validate a document against the names
\* registered in the registry of the context in use: a tool step naming a
\* registered capability never draws InvalidTool, and one naming an
\* unregistered capability (which execution reports as not found) always
\* does.
C29_KnownSetIsRegistry ==
    (Planned /\ llm_result.success /\ HasPlanArray(from_str(json_str))) =>
        \E steps \in {PlanStepsJson(from_str(json_str).v)} :
        \A k \in DOMAIN steps :
            (IsToolDoc(steps[k]) /\ GetStr(steps[k], "name").some) =>
                (InSeq(InvalidTool(Word(GetStr(steps[k], "name").v)), validation_errors)
                    <=> ~get_tool(Word(GetStr(steps[k], "name").v)).some)

(***************************************************************************)
(* Properties of the order of the phases                                   *)
(***************************************************************************)

\* C30: in every run plan is followed by simulate, simulate by execute and
\* execute by evaluate; a follow-up execute happens only after a replan that
\* returned a plan; and every execute, the first and the follow-up, is
\* followed by an evaluate of its result before the run ends.
C30_PhaseOrder ==
    [][/\ pc = "plan" => pc' = "simulate"
       /\ pc = "simulate" => pc' = "execute"
       /\ (pc = "execute" /\ pc' # pc) => pc' = "evaluate"
       /\ pc' = "execute2" => (replan_calls' >= 1 /\ replanned'.some /\ followup_plan' = replanned' /\ followup_plan'.v # <<>>)
       /\ (pc = "execute2" /\ pc' # pc) => pc' = "evaluate"]_vars

(***************************************************************************)
(* Properties of the log of a pass                                         *)
(***************************************************************************)

\* The invocation of a registered capability returned a success.
SucceededCall(e) == Confirmed(e) /\ e.found /\ e.result.success

IsToolLabel(label) == Len(label) = 3 /\ label[1] = "tool:" /\ label[2] = " "

\* An entry as the claim describes it: an info entry with its message, a
\* tool entry by its label alone.
Mark(entry) == IF IsToolLabel(entry.label) THEN [label |-> entry.label, content |-> <<>>] ELSE entry

\* The entries the finished steps must have caused, in step order.
RECURSIVE StepMarks(_)
StepMarks(t) ==
    IF t = <<>> THEN <<>>
    ELSE (IF Head(t).step.kind = "Info" THEN <<[label |-> <<"info">>, content |-> Head(t).step.message]>>
          ELSE IF SucceededCall(Head(t)) THEN <<[label |-> <<"tool:", " ", Head(t).step.name>>, content |-> <<>>]>>
          ELSE <<>>)
         \o StepMarks(Tail(t))

\* C31: at every point of a pass, each finished Info step has appended one
\* ("info", message) entry and each finished successful invocation of a
\* registered capability one ("tool: <name>", ...) entry; these entries are
\* in the log in plan-step order, and they are all there before the next
\* step starts.
C31_EntriesInStepOrder ==
    (i >= 1 \/ PassDone) =>
        /\ IsSubseq(StepMarks(trace), [k \in DOMAIN memory |-> Mark(memory[k])])
        /\ Cardinality({ k \in DOMAIN memory : memory[k].label = <<"info">> }) = Cardinality({ k \in DOMAIN trace : trace[k].step.kind = "Info" })
        /\ Cardinality({ k \in DOMAIN memory : IsToolLabel(memory[k].label) }) = Cardinality({ k \in DOMAIN trace : Confirmed(trace[k]) /\ trace[k].found })

C31_Witness ==
    /\ pc = "execute"
    /\ i = 4
    /\ Len(trace) = 3
    /\ SucceededCall(trace[1])
    /\ trace[2].step.kind = "Info"
    /\ SucceededCall(trace[3])
    /\ trace[1].step.name # trace[3].step.name
    /\ Len(memory) = 3
    /\ memory[1].label = <<"tool:", " ", trace[1].step.name>>
    /\ memory[2] = [label |-> <<"info">>, content |-> trace[2].step.message]
    /\ memory[3].label = <<"tool:", " ", trace[3].step.name>>

\* The content of the execution_error entry of a failed invocation.
ErrorEntryText(e) == <<"Tool '", e.step.name, "' failed: ">> \o FailureText(e)

\* The execution_error contents the failed invocations must have caused, in
\* step order.
RECURSIVE ErrorEntryTexts(_)
ErrorEntryTexts(t) ==
    IF t = <<>> THEN <<>>
    ELSE (IF FailedCall(Head(t)) THEN <<ErrorEntryText(Head(t))>> ELSE <<>>)
         \o ErrorEntryTexts(Tail(t))

\* C32: every failed invocation of a registered capability, critical or
\* not, has appended an execution_error entry naming the capability and its
\* error text; and every error_analysis entry directly follows the
\* execution_error entry of the failure it analyses, so it comes before any
\* entry of the next step.
C32_FailureEntries ==
    (i >= 1 \/ PassDone) =>
        /\ Logged(memory, <<"execution_error">>) = ErrorEntryTexts(trace)
        /\ \A k \in DOMAIN memory :
            memory[k].label = <<"error_analysis">> =>
                /\ k > 1
                /\ memory[k - 1].label = <<"execution_error">>
                /\ \E n \in DOMAIN trace :
                    /\ FailedCall(trace[n])
                    /\ memory[k - 1].content = ErrorEntryText(trace[n])
                    /\ trace[n].analysis_input = Some(FailureText(trace[n]))
                    /\ trace[n].analysis_result.output = Some(memory[k].content)

C32_Witness ==
    /\ PassDone
    /\ Len(trace) = 3
    /\ FailedCall(trace[1]) /\ ~CriticalCall(trace[1])
    /\ CriticalCall(trace[2])
    /\ trace[3].step.kind = "Info"
    /\ Len(memory) = 6
    /\ memory[2] = Entry(<<"execution_error">>, ErrorEntryText(trace[1]))
    /\ memory[4] = Entry(<<"execution_error">>, ErrorEntryText(trace[2]))
    /\ memory[5].label = <<"error_analysis">>
    /\ memory[6].label = <<"info">>

(***************************************************************************)
(* Properties of the reasoning marker                                      *)
(***************************************************************************)

HasMarker(raw) == \E k \in DOMAIN raw : raw[k] = "</think>"

\* The text after the last reasoning marker, the whole text without one.
AfterMarker(raw) ==
    IF HasMarker(raw)
    THEN SubSeq(raw, Max({ k \in DOMAIN raw : raw[k] = "</think>" }) + 1, Len(raw))
    ELSE raw

BeforeMarker(raw) == SubSeq(raw, 1, Max({ k \in DOMAIN raw : raw[k] = "</think>" }) - 1)

\* C33: when the raw backend text contains </think>, everything up to and
\* including the marker is discarded: the extracted document and the
\* returned Plan are those of an answer made of the remainder alone, so a
\* document before the marker never becomes the Plan; without the marker
\* the whole text is used.
C33_OnlyRemainderUsed ==
    (Planned /\ llm_result.success) =>
        \E raw \in {UnwrapOrDefault(llm_result.output)} :
        \E alone \in {Generate(who, <<>>, [llm_result EXCEPT !.output = Some(AfterMarker(raw))])} :
            /\ alone.json_str = json_str
            /\ alone.plan = plan
            /\ HasMarker(raw) => ~HasMarker(AfterMarker(raw))
            /\ (HasMarker(raw) /\ ExtractJson(Cleaned(AfterMarker(raw))) = <<>>) => plan = FailurePlan(ParseFailed(who))

C33_Witness ==
    /\ Planned
    /\ llm_result.success
    /\ HasMarker(llm_result.output.v)
    /\ HasPlanArray(from_str(Trim(BeforeMarker(llm_result.output.v))))
    /\ PlanStepsJson(from_str(Trim(BeforeMarker(llm_result.output.v))).v) # <<>>
    /\ AfterMarker(llm_result.output.v) = <<"\n", "sorry">>
    /\ plan = FailurePlan(ParseFailed(who))

(***************************************************************************)
(* Properties of the format repair                                         *)
(***************************************************************************)

\* The capability names the repair knows as step types.
RepairedTypes == { <<"run_command">>, <<"reflect">>, <<"analyze_error">> }

\* A step written with a capability name as its type and no tool wrapper:
\* its only other member, if any, is a string input.
IsBareCapabilityStep(e) ==
    /\ e.t = "obj"
    /\ Once(e, "type")
    /\ GetStr(e, "type").some /\ GetStr(e, "type").v \in RepairedTypes
    /\ ~Get(e, "name").some
    /\ AtMostOnce(e, "input")
    /\ Get(e, "input").some => GetStr(e, "input").some

\* C34: a step of the backend's document written with a capability name
\* (run_command, reflect, analyze_error) as its type is in the returned Plan
\* as the ToolCall of that name with the step's input, empty when absent;
\* and a document already in the tool form is not changed by the repair.
C34_FormatRepair ==
    \A raw \in {UnwrapOrDefault(llm_result.output)} :
    \A r \in {from_str(raw)} :
        (Planned /\ llm_result.success /\ HasPlanArray(r)) =>
            /\ \A k \in DOMAIN PlanStepsJson(r.v) :
                 IsBareCapabilityStep(PlanStepsJson(r.v)[k]) =>
                    InSeq(ToolCall(Word(GetStr(PlanStepsJson(r.v)[k], "type").v),
                                   UnwrapOrDefault(GetStr(PlanStepsJson(r.v)[k], "input"))),
                          plan)
            /\ IsWireDocument(r) =>
                 json_str = FixInvalidTypes(RemoveComments(ExtractJson(Cleaned(PostThink(raw)))),
                                            invalid_types)

(***************************************************************************)
(* Properties of the counters of a pass                                    *)
(***************************************************************************)

\* C35: when execute returns, success = false implies that errors is not
\* empty and errors has at least as many entries as critical failures were
\* counted; and every step of the loop that increments critical_failures
\* increments it by one and appends exactly one entry to errors.
C35_ErrorsCoverCriticalFailures ==
    /\ [](/\ Len(errors) >= critical_failures
          /\ PassDone =>
                /\ exec.v.errors = errors
                /\ ~exec.v.success => exec.v.errors # <<>>
                /\ Len(exec.v.errors) >= critical_failures)
    /\ [][critical_failures' > critical_failures =>
                /\ critical_failures' = critical_failures + 1
                /\ Len(errors') = Len(errors) + 1
                /\ IsPrefix(errors, errors')]_vars

\* A pass has returned success = false after two critical failures and one
\* failure of an auxiliary capability: three errors, two of them counted.
C35_Witness ==
    /\ PassDone
    /\ ~exec.v.success
    /\ critical_failures = 2
    /\ Len(exec.v.errors) = 3

(***************************************************************************)
(* Properties of plans of Info steps                                       *)
(***************************************************************************)

InfoOnly(p) == \A k \in DOMAIN p : p[k].kind = "Info"

\* C36: a plan of Info steps only executes with success = true and no
\* errors, no step of the pass reads the console or invokes a capability;
\* so the one-step Info plan returned when acquisition fails is executed as
\* a success, is rated with the score of a success and leaves no error in
\* the ExecutionResult.
C36_InfoPlanSucceeds ==
    InfoOnly(plan) =>
        /\ PassDone =>
            /\ exec.v.success
            /\ exec.v.errors = <<>>
            /\ Len(trace) = Len(plan)
            /\ \A k \in DOMAIN trace : ~IsCall(trace[k]) /\ trace[k].raw_line = <<>>
            /\ \A k \in DOMAIN memory : ~IsToolLabel(memory[k].label)
            /\ critical_failures = 0
        /\ feedback.some => feedback.v.score = 90

\* The planner's plan for an answer that holds no document has been
\* executed and rated: a success with score 90 and no error.
C36_Witness ==
    /\ plan = FailurePlan(ParseFailed("planner"))
    /\ PassDone
    /\ exec.v = ExecutionResult(TRUE, Some(<<"[INFO]", " ">> \o ParseFailed("planner")), <<>>)
    /\ feedback.some
    /\ feedback.v.score = 90

(***************************************************************************)
(* Properties of the task model                                            *)
(***************************************************************************)

\* C37: until execute is called for the first time the task model's output
\* is unset and is_complete() is false; once a call of execute has returned,
\* with success or without, the output is set, is_complete() is true,
\* current_state is "Completed" and the output of the ExecutionResult is the
\* task model's output.
C37_ModelCompleteAfterExecute ==
    /\ exec_calls = 0 =>
            /\ model_output = None
            /\ ~is_complete(model_output)
            /\ ~exec.some
    /\ exec.some =>
            /\ model_output.some
            /\ is_complete(model_output)
            /\ current_state = "Completed"
            /\ exec.v.output = model_output

\* The second call of execute has returned a failure: the task model holds
\* its output and not that of the first call.
C37_Witness ==
    /\ exec_calls = 2
    /\ PassDone
    /\ ~exec.v.success
    /\ is_complete(model_output)
    /\ current_state = "Completed"
    /\ exec.v.output = model_output
    /\ model_output = Some(Trim(combined_output))

(***************************************************************************)
(* Properties of the registry                                              *)
(***************************************************************************)

\* The positions of the register_tool calls that were given a tool named n.
RegisteredAs(n) == { j \in DOMAIN registrations : ToolName(registrations[j]) = n }

LookupNames == { ToolName(t) : t \in ToolValues } \cup {"analyze_error", "build_docs"}

\* C38: after any sequence of register_tool calls every key of the tool map
\* is the name() of the tool stored under it, and get_tool(n) returns the
\* tool of the latest call that was given a tool named n, or nothing when
\* no call was given one.
C38_RegistryKeyedByName ==
    /\ \A k \in DOMAIN tool_map : ToolName(tool_map[k]) = k
    /\ tools = DOMAIN tool_map
    /\ \A n \in LookupNames :
        /\ tools_get(tool_map, n) =
                IF RegisteredAs(n) = {} THEN None
                ELSE Some(registrations[Max(RegisteredAs(n))])
        /\ get_tool(n).some <=> tools_get(tool_map, n).some

\* An LLMTool was registered, then another tool, then a second LLMTool with
\* another model: the lookup of "llm" gives the second.
C38_Witness ==
    /\ registrations = << ToolStruct("LLMTool", "deepseek-r1:7b"),
                          ToolStruct("FakeEchoTool", ""),
                          ToolStruct("LLMTool", "llama3") >>
    /\ tools_get(tool_map, "llm") = Some(ToolStruct("LLMTool", "llama3"))
    /\ tools_get(tool_map, "run_command") = None
    /\ DOMAIN tool_map = {"llm", "echo"}

(***************************************************************************)
(* Properties of the automatic error analysis                              *)
(***************************************************************************)

\* The iteration the step has just finished.
Latest == trace'[Len(trace')]

\* The analyzer was invoked and failed or returned no output.
AnalysisLost(e) ==
    e.analysed /\ ~(e.analysis_result.success /\ e.analysis_result.output.some)

\* C39: the analyzer call that follows a critical failure is not subject to
\* a confirmation: with analyze_error registered it is made for every
\* critical failure of an invoked capability whatever the console can
\* answer, in the iteration of the failed step and with the one line that
\* iteration read; and when the call fails or returns no output, errors,
\* critical_failures, previous_outputs and the log are as the failure
\* itself left them.
C39_AnalysisUnpromptedAndSilent ==
    /\ [](\A k \in DOMAIN trace :
            (CriticalCall(trace[k]) /\ get_tool("analyze_error").some) =>
                /\ Triggered(trace[k])
                /\ trace[k].raw_line \in console
                /\ trace[k].line = Trim(trace[k].raw_line))
    /\ [][(Len(trace') = Len(trace) + 1 /\ AnalysisLost(Latest)) =>
                /\ i' = i + 1
                /\ errors' = Append(errors, FailureText(Latest))
                /\ critical_failures' = critical_failures + 1
                /\ previous_outputs' = previous_outputs
                /\ memory' = Append(Append(memory,
                                ToolLogEntry(Latest.step.name, Latest.resolved_input, Latest.result)),
                                Entry(<<"execution_error">>, ErrorEntryText(Latest)))]_vars

\* A pass in which run_command failed twice and the analyzer failed on the
\* first failure and succeeded on the second: two errors, two critical
\* failures, one error_analysis entry.
C39_Witness ==
    /\ PassDone
    /\ Len(trace) >= 2
    /\ CriticalCall(trace[1]) /\ AnalysisLost(trace[1])
    /\ CriticalCall(trace[2]) /\ trace[2].analysis_result.success
    /\ Len(errors) = 2
    /\ critical_failures = 2
    /\ Logged(memory, <<"error_analysis">>) = <<trace[2].analysis_result.output.v>>

====
